---- MODULE Spec2Model ----
(***************************************************************************)
(* Verification model of GUISpector.                                       *)
(*                                                                         *)
(*   - the display lease pool (webapp/setups/resource_manager.py) shared   *)
(*     by concurrent verification tasks and the periodic reaper;           *)
(*   - the orchestration of one verification task                          *)
(*     (webapp/setups/tasks.py, run_verification_task);                    *)
(*   - the turn-based control loop of the verification agent               *)
(*     (gui_spector/verfication/agent.py).                                 *)
(*                                                                         *)
(* Each part has its own specification: SpecPool and SpecPoolFair (the     *)
(* pool under concurrent tasks and the reaper), SpecCalls (the pool used   *)
(* by one caller, call after call), SpecTask, SpecLoop, SpecArtifacts      *)
(* (the loop with the files and usage records it produces), SpecRun (the   *)
(* decision handling of run()), SpecAttempt (the task with the decision    *)
(* handling of each attempt), SpecReuse (one runner used for several runs),*)
(* SpecSetup (the tasks of one setup updating its state) and SpecMcp (the  *)
(* blocking call of the MCP server, mcp/web_mcp_server.py); the variables  *)
(* of the other parts stay at their initial value.                         *)
(***************************************************************************)
EXTENDS Integers, Sequences, FiniteSets, TLC

(***************************************************************************)
(* Bounds of the model.                                                    *)
(***************************************************************************)
\* largest configured pool size (DisplayPool.size, DISPLAY_POOL_SIZE)
MaxPoolSize == 2
\* number of concurrent verification tasks (run_verification_task)
NumRuns == 2
\* time-to-live of a lease record, in clock ticks (DisplayPool.lease_ttl)
LeaseTTL == 2

\* display i stands for the string ":<base + i>"
Displays == 0 .. (MaxPoolSize - 1)
Runs == 1 .. NumRuns
NoDisplay == -1
NoRun == 0

VARIABLES
    \* ---- configuration of the pool -----------------------------------
    size,          \* DisplayPool.size
    \* ---- Redis state of the pool -------------------------------------
    initialized,   \* key "<ns>:initialized" exists
    free,          \* list "<ns>:free"   (head = left end)
    leased,        \* list "<ns>:leased" (head = left end)
    leaseTTL,      \* remaining ticks of key "<ns>:lease:<disp>"; 0 = no key
    leaseOwner,    \* value of key "<ns>:lease:<disp>" (run id), NoRun = no key
    seedPushes,    \* how often seed_if_needed has pushed each display
    \* ---- the tasks using the pool ------------------------------------
    pc,            \* position of each task in acquire / hold / release
    held,          \* display returned by BLMOVE to each task
    \* ---- the periodic reaper (reap_display_leases) --------------------
    rpc,           \* "idle", "scan", "reclaim"
    ri,            \* loop index of reap_expired
    reclaimed      \* local counter of reap_expired, the value it returns

poolVars == <<size, initialized, free, leased, leaseTTL, leaseOwner,
              seedPushes, pc, held, rpc, ri, reclaimed>>

VARIABLES
    \* ---- run_verification_task, from pool.acquire on -------------------
    tpc,           \* position of the task
    maxRetries,    \* setup.max_retries
    attempts,      \* local variable attempts
    computerBound, \* the local variable computer has been assigned
    browserOpen,   \* a browser window is open on the display
    hasResult,     \* result holds a VerificationRunResult
    loopRuns,      \* calls of runner.run made by the task
    releaseCount,  \* calls of pool.release made by the task
    runStatus,     \* pending.status
    runDir,        \* run_dir ("" before it is created)
    attemptDirs,   \* the run_dir each VerficationRunner was constructed with
    exc,           \* the exception being raised or handled ("" = none)
    pendingError,  \* pending.error
    reqStatus      \* req.status

taskVars == <<tpc, maxRetries, attempts, computerBound, browserOpen,
              hasResult, loopRuns, releaseCount, runStatus, runDir,
              attemptDirs, exc, pendingError, reqStatus>>

VARIABLES
    \* ---- VerficationRunner.run_full_turn / handle_item ------------------
    lpc,            \* position in run_full_turn
    maxSteps,       \* max_reasoning_steps (0: None)
    printSteps,     \* print_steps
    newItems,       \* new_items
    response,       \* response["output"] of the current turn
    idx,            \* position in response["output"] of the item being handled
    curExecuted,    \* the GUI action of the item being handled has been executed
    acksDone,       \* safety checks of that item acknowledged so far
    rejected,       \* the acknowledgment callback has returned False
    requests,       \* calls of create_response
    turnsCompleted, \* turns_completed
    stepCounter,    \* self.step_counter
    envActions,     \* GUI actions executed on the computer
    envCalls,       \* capabilities invoked for function_call items
    lastError,      \* the exception that left run_full_turn ("" = none)
    \* ---- what a run records and writes (<<>> stands for None) -----------
    usages,         \* self._usages
    usageObj,       \* usage_obj of the current turn
    lastAction,     \* self._last_action, by its call_id
    lastShot,       \* self._last_screenshot_path, by its step number
    extras,         \* self._response_extras
    written,        \* the files written to the run directory, in order
    interactions,   \* interactions of the result
    usageTotal,     \* usage_total of the result
    runsStarted     \* calls of run() made on this VerficationRunner

artifactVars == <<usages, usageObj, lastAction, lastShot, extras, written,
                  interactions, usageTotal, runsStarted>>

loopVars == <<lpc, maxSteps, printSteps, newItems, response, idx, curExecuted,
              acksDone, rejected, requests, turnsCompleted, stepCounter,
              envActions, envCalls, lastError, artifactVars>>

VARIABLES
    \* ---- VerficationRunner.run, after run_full_turn has returned --------
    dpc,            \* position in run()
    texts,          \* text_segments: the texts of the message items of items
    modelResults,   \* the acceptance_criteria_results the model reports
    modelStatus,    \* the top-level status the model reports
    acNames,        \* names of requirement.acceptance_criteria
    extract,        \* the tuple _extract_json returned (<<>>: not called)
    result,         \* the VerficationRunResult that run() returned
    runError,       \* the exception that left run() ("" = none)
    mismatch,       \* missing and extra names the mismatch exception reports
    resultJson      \* the file result/result.json exists in the run directory

runVars == <<dpc, texts, modelResults, modelStatus, acNames, extract, result,
             runError, mismatch, resultJson>>

VARIABLES
    \* ---- one caller using a DisplayPool, call after call ---------------
    calls,          \* the calls made so far, with what they returned
    before,         \* the Redis state of the pool before the last call
    stuck           \* the caller is blocked in BLMOVE for ever

callVars == <<calls, before, stuck>>

VARIABLES
    \* ---- the rows of one Setup and the tasks that finish on it ----------
    fpc,            \* position of each task of the setup
    reqStatusOf,    \* Requirement.status of the requirement of each task
    setupState,     \* Setup.state
    anyProcessing,  \* what each task's query for PROCESSING requirements gave
    \* ---- verification_run_single_sync and the run it starts ------------
    mpc,            \* position of the MCP tool call
    wpc,            \* position of the task the call enqueued
    runRows,        \* the requirement's VerificationRun rows, by created_at
    deadline,       \* the timeout of the call has been reached
    polls,          \* polls of the call that went to sleep
    info            \* what the call returned (<<>>: nothing yet)

webVars == <<fpc, reqStatusOf, setupState, anyProcessing, mpc, wpc, runRows,
             deadline, polls, info>>

vars == <<poolVars, taskVars, loopVars, runVars, callVars, webVars>>

(***************************************************************************)
(* Redis list commands, as used by the pool.                               *)
(***************************************************************************)
RECURSIVE LRemAll(_, _)
\* LREM key 0 value: remove every occurrence
LRemAll(s, v) ==
    IF s = <<>> THEN <<>>
    ELSE IF Head(s) = v THEN LRemAll(Tail(s), v)
         ELSE <<Head(s)>> \o LRemAll(Tail(s), v)

RECURSIVE LRemFirst(_, _)
\* LREM key 1 value: remove the first occurrence, from the head
LRemFirst(s, v) ==
    IF s = <<>> THEN <<>>
    ELSE IF Head(s) = v THEN Tail(s)
         ELSE <<Head(s)>> \o LRemFirst(Tail(s), v)

\* LPUSH key value
LPush(s, v) == <<v>> \o s

\* RPUSH key value
RPush(s, v) == Append(s, v)

\* the element BLMOVE ... RIGHT takes from the source list
RightElem(s) == s[Len(s)]

\* a move that leaves the element in the source list
NoPop(s) == s

\* the source list after BLMOVE ... RIGHT
RightPop(s) == SubSeq(s, 1, Len(s) - 1)

RECURSIVE Count(_, _)
Count(s, v) ==
    IF s = <<>> THEN 0
    ELSE (IF Head(s) = v THEN 1 ELSE 0) + Count(Tail(s), v)

InList(s, v) == \E i \in 1 .. Len(s) : s[i] = v

RECURSIVE SeedList(_)
\* the displays seed_if_needed pushes, in order: base+0, base+1, ...
SeedList(n) == IF n = 0 THEN <<>> ELSE Append(SeedList(n - 1), n - 1)

(***************************************************************************)
(* No call-after-call use of the pool is going on.                         *)
(***************************************************************************)
CallIdle ==
    /\ calls = <<>>
    /\ before = <<>>
    /\ stuck = FALSE

(***************************************************************************)
(* No task of the setup has been started and no MCP call is going on.      *)
(***************************************************************************)
SetupIdle ==
    /\ fpc = [r \in Runs |-> "queued"]
    /\ reqStatusOf = [r \in Runs |-> "unprocessed"]
    /\ setupState = "ready"
    /\ anyProcessing = [r \in Runs |-> FALSE]

McpIdle ==
    /\ mpc = "idle"
    /\ wpc = "none"
    /\ runRows = <<>>
    /\ deadline = FALSE
    /\ polls = 0
    /\ info = <<>>

WebIdle == SetupIdle /\ McpIdle

(***************************************************************************)
(* The state of the task part before any task has run.                     *)
(***************************************************************************)
TaskIdle ==
    /\ tpc = "start"
    /\ maxRetries = 0
    /\ attempts = 0
    /\ computerBound = FALSE
    /\ browserOpen = FALSE
    /\ hasResult = FALSE
    /\ loopRuns = 0
    /\ releaseCount = 0
    /\ runStatus = "processing"
    /\ runDir = ""
    /\ attemptDirs = <<>>
    /\ exc = ""
    /\ pendingError = ""
    /\ reqStatus = "processing"

(***************************************************************************)
(* The state of the control loop before run() is called.                   *)
(***************************************************************************)
LoopIdle ==
    /\ lpc = "loop"
    /\ maxSteps = 0
    /\ printSteps = FALSE
    /\ newItems = <<>>
    /\ response = <<>>
    /\ idx = 1
    /\ curExecuted = FALSE
    /\ acksDone = 0
    /\ rejected = FALSE
    /\ requests = 0
    /\ turnsCompleted = 0
    /\ stepCounter = 1
    /\ envActions = 0
    /\ envCalls = 0
    /\ lastError = ""
    /\ usages = <<>>
    /\ usageObj = <<>>
    /\ lastAction = <<>>
    /\ lastShot = <<>>
    /\ extras = <<>>
    /\ written = <<>>
    /\ interactions = <<>>
    /\ usageTotal = <<>>
    /\ runsStarted = 0

(***************************************************************************)
(* A parsed decision: None, or a JSON object that has or lacks the members *)
(* acceptance_criteria_results and status.                                 *)
(***************************************************************************)
NoneJson ==
    [none |-> TRUE, hasResults |-> FALSE, results |-> <<>>,
     hasStatus |-> FALSE, status |-> ""]
NoMismatch == [missing |-> {}, extra |-> {}]
NoResult == [status |-> "", model_decision |-> NoneJson, error |-> ""]

\* run() has not reached the decision
RunIdle ==
    /\ dpc = "idle"
    /\ texts = <<>>
    /\ modelResults = <<>>
    /\ modelStatus = ""
    /\ acNames = {}
    /\ extract = <<>>
    /\ result = NoResult
    /\ runError = ""
    /\ mismatch = NoMismatch
    /\ resultJson = FALSE

(***************************************************************************)
(* DisplayPool operations.                                                 *)
(***************************************************************************)
PoolInit ==
    /\ size \in 1 .. MaxPoolSize
    /\ initialized = FALSE
    /\ free = <<>>
    /\ leased = <<>>
    /\ leaseTTL = [d \in Displays |-> 0]
    /\ leaseOwner = [d \in Displays |-> NoRun]
    /\ seedPushes = [d \in Displays |-> 0]
    /\ pc = [r \in Runs |-> "idle"]
    /\ held = [r \in Runs |-> NoDisplay]
    /\ rpc = "idle"
    /\ ri = 0
    /\ reclaimed = 0

reaperVars == <<rpc, ri, reclaimed>>

\* a seeding whose marker is written without NX: every caller goes on to push
SeedSetAlways(r) ==
    /\ pc[r] = "idle"
    /\ pc' = [pc EXCEPT ![r] = "seed_push"]
    /\ initialized' = TRUE
    /\ UNCHANGED <<size, seedPushes, free, leased, leaseTTL, leaseOwner, held,
                   reaperVars>>
    /\ UNCHANGED <<taskVars, loopVars, runVars, callVars, webVars>>

\* seed_if_needed, first half: SET initialized 1 NX
SeedSetNX(r) ==
    /\ pc[r] = "idle"
    /\ IF initialized
          THEN pc' = [pc EXCEPT ![r] = "blmove"]
          ELSE pc' = [pc EXCEPT ![r] = "seed_push"]
    /\ initialized' = TRUE
    /\ UNCHANGED <<size, seedPushes, free, leased, leaseTTL, leaseOwner, held, reaperVars>>
    /\ UNCHANGED <<taskVars, loopVars, runVars, callVars, webVars>>

\* seed_if_needed, second half: the pipeline of RPUSH free
SeedPush(r) ==
    /\ pc[r] = "seed_push"
    /\ free' = free \o SeedList(size)
    /\ seedPushes' = [d \in Displays |->
                          seedPushes[d] + Count(SeedList(size), d)]
    /\ pc' = [pc EXCEPT ![r] = "blmove"]
    /\ UNCHANGED <<size, initialized, leased, leaseTTL, leaseOwner, held, reaperVars>>
    /\ UNCHANGED <<taskVars, loopVars, runVars, callVars, webVars>>

\* acquire: BLMOVE free leased RIGHT LEFT 0 (blocks while free is empty)
BLMove(r) ==
    /\ pc[r] = "blmove"
    /\ free # <<>>
    /\ free' = RightPop(free)
    /\ leased' = LPush(leased, RightElem(free))
    /\ held' = [held EXCEPT ![r] = RightElem(free)]
    /\ pc' = [pc EXCEPT ![r] = "set_lease"]
    /\ UNCHANGED <<size, seedPushes, initialized, leaseTTL, leaseOwner, reaperVars>>
    /\ UNCHANGED <<taskVars, loopVars, runVars, callVars, webVars>>

\* acquire: SET lease:<disp> run_id EX lease_ttl, then return disp
SetLease(r) ==
    /\ pc[r] = "set_lease"
    /\ leaseTTL' = [leaseTTL EXCEPT ![held[r]] = LeaseTTL]
    /\ leaseOwner' = [leaseOwner EXCEPT ![held[r]] = r]
    /\ pc' = [pc EXCEPT ![r] = "holding"]
    /\ UNCHANGED <<size, seedPushes, initialized, free, leased, held, reaperVars>>
    /\ UNCHANGED <<taskVars, loopVars, runVars, callVars, webVars>>

\* heartbeat: EXPIRE lease:<disp> ttl (no effect on a missing key)
Heartbeat(r) ==
    /\ pc[r] = "holding"
    /\ leaseTTL' = [leaseTTL EXCEPT ![held[r]] =
                        IF leaseTTL[held[r]] > 0 THEN LeaseTTL ELSE 0]
    /\ UNCHANGED <<size, seedPushes, initialized, free, leased, leaseOwner, pc, held, reaperVars>>
    /\ UNCHANGED <<taskVars, loopVars, runVars, callVars, webVars>>

\* release: pipeline LREM leased 1 disp; LPUSH free disp; DEL lease:<disp>
Release(r) ==
    /\ pc[r] = "holding"
    /\ leased' = LRemFirst(leased, held[r])
    /\ free' = LPush(free, held[r])
    /\ leaseTTL' = [leaseTTL EXCEPT ![held[r]] = 0]
    /\ leaseOwner' = [leaseOwner EXCEPT ![held[r]] = NoRun]
    /\ pc' = [pc EXCEPT ![r] = "done"]
    /\ held' = [held EXCEPT ![r] = NoDisplay]
    /\ UNCHANGED <<size, seedPushes, initialized, reaperVars>>
    /\ UNCHANGED <<taskVars, loopVars, runVars, callVars, webVars>>

\* the task's worker dies (or is killed) without releasing
Crash(r) ==
    /\ pc[r] \in {"seed_push", "set_lease", "holding"}
    /\ pc' = [pc EXCEPT ![r] = "crashed"]
    /\ UNCHANGED <<size, seedPushes, initialized, free, leased, leaseTTL, leaseOwner, held, reaperVars>>
    /\ UNCHANGED <<taskVars, loopVars, runVars, callVars, webVars>>

\* Redis' clock: every lease key loses one tick and is deleted at zero
Tick ==
    /\ \E d \in Displays : leaseTTL[d] > 0
    /\ leaseTTL' = [d \in Displays |->
                        IF leaseTTL[d] > 0 THEN leaseTTL[d] - 1 ELSE 0]
    /\ leaseOwner' = [d \in Displays |->
                        IF leaseTTL[d] > 1 THEN leaseOwner[d] ELSE NoRun]
    /\ UNCHANGED <<size, seedPushes, initialized, free, leased, pc, held, reaperVars>>
    /\ UNCHANGED <<taskVars, loopVars, runVars, callVars, webVars>>

\* celery beat starts reap_display_leases
ReapStart ==
    /\ rpc = "idle"
    /\ rpc' = "scan"
    /\ ri' = 0
    /\ reclaimed' = 0
    /\ UNCHANGED <<size, seedPushes, initialized, free, leased, leaseTTL, leaseOwner, pc, held>>
    /\ UNCHANGED <<taskVars, loopVars, runVars, callVars, webVars>>

\* reap_expired: EXISTS lease:<disp> for display ri
ReapCheck ==
    /\ rpc = "scan"
    /\ ri < size
    /\ IF leaseTTL[ri] = 0
          THEN rpc' = "reclaim" /\ ri' = ri
          ELSE rpc' = "scan" /\ ri' = ri + 1
    /\ UNCHANGED <<size, seedPushes, initialized, free, leased, leaseTTL, leaseOwner, pc, held,
                   reclaimed>>
    /\ UNCHANGED <<taskVars, loopVars, runVars, callVars, webVars>>

\* a reclaim that loses the display: it is taken out of both lists and never
\* pushed back to free
ReapReclaimNoPush ==
    /\ rpc = "reclaim"
    /\ leased' = LRemAll(leased, ri)
    /\ free' = LRemAll(free, ri)
    /\ reclaimed' = reclaimed + 1
    /\ ri' = ri + 1
    /\ rpc' = "scan"
    /\ UNCHANGED <<size, seedPushes, initialized, leaseTTL, leaseOwner, pc, held>>
    /\ UNCHANGED <<taskVars, loopVars, runVars, callVars, webVars>>

\* reap_expired: pipeline LREM leased 0; LREM free 0; LPUSH free
ReapReclaim ==
    /\ rpc = "reclaim"
    /\ leased' = LRemAll(leased, ri)
    /\ free' = LPush(LRemAll(free, ri), ri)
    /\ reclaimed' = reclaimed + 1
    /\ ri' = ri + 1
    /\ rpc' = "scan"
    /\ UNCHANGED <<size, seedPushes, initialized, leaseTTL, leaseOwner, pc, held>>
    /\ UNCHANGED <<taskVars, loopVars, runVars, callVars, webVars>>

\* reap_expired returns the count
ReapReturn ==
    /\ rpc = "scan"
    /\ ri = size
    /\ rpc' = "idle"
    /\ UNCHANGED <<size, seedPushes, initialized, free, leased, leaseTTL, leaseOwner, pc, held,
                   ri, reclaimed>>
    /\ UNCHANGED <<taskVars, loopVars, runVars, callVars, webVars>>

PoolNext ==
    \/ \E r \in Runs : SeedSetNX(r)
    \/ \E r \in Runs : SeedPush(r)
    \/ \E r \in Runs : BLMove(r)
    \/ \E r \in Runs : SetLease(r)
    \/ \E r \in Runs : Heartbeat(r)
    \/ \E r \in Runs : Release(r)
    \/ \E r \in Runs : Crash(r)
    \/ Tick
    \/ ReapStart
    \/ ReapCheck
    \/ ReapReclaim
    \/ ReapReturn

\* a fresh pool; no task body, control loop or decision is running
InitPool ==
    PoolInit /\ TaskIdle /\ LoopIdle /\ RunIdle /\ CallIdle /\ WebIdle

SpecPool == InitPool /\ [][PoolNext]_vars

(***************************************************************************)
(* Fairness of the pool's environment: Redis' clock advances, celery beat  *)
(* runs the reaper every minute and the reaper runs to completion, a task  *)
(* that is not killed goes on from SETNX to RPUSH and from BLMOVE to SET,  *)
(* and Redis serves a client blocked in BLMOVE when the list is pushed to. *)
(* Nothing forces a task to start, to heartbeat or to release.             *)
(***************************************************************************)
PoolFairness ==
    /\ WF_vars(Tick)
    /\ WF_vars(ReapStart)
    /\ WF_vars(ReapCheck)
    /\ WF_vars(ReapReclaim)
    /\ WF_vars(ReapReturn)
    /\ \A r \in Runs : WF_vars(SeedPush(r))
    /\ \A r \in Runs : WF_vars(SetLease(r))
    /\ \A r \in Runs : SF_vars(BLMove(r))

SpecPoolFair == InitPool /\ [][PoolNext]_vars /\ PoolFairness

(***************************************************************************)
(* Who holds what.                                                         *)
(***************************************************************************)
\* acquire has returned x to r and r has not released it
Holds(r, x) == pc[r] = "holding" /\ held[r] = x

\* r is alive and has taken x out of the free queue
LiveHas(r, x) == pc[r] \in {"set_lease", "holding"} /\ held[r] = x

\* r died after BLMOVE gave it x and before releasing it
CrashedHolder(r, x) == pc[r] = "crashed" /\ held[r] = x

\* x is in the free queue or in the hands of a live task
Recovered(x) == InList(free, x) \/ \E r \in Runs : LiveHas(r, x)

\* the RPUSH pipeline of seed_if_needed has run: the marker is set and no
\* task is (or died) between SET NX and the pipeline
SeedingDone ==
    /\ initialized
    /\ \A r \in Runs : pc[r] # "seed_push"
    /\ \A r \in Runs : ~(pc[r] = "crashed" /\ held[r] = NoDisplay)

(***************************************************************************)
(* Claims about the lease pool.                                            *)
(***************************************************************************)

\* C1: mutual exclusion of displays: no display is held by two live tasks
\* at the same time (between acquire returning x to one task and that task's
\* release(x), acquire returns x to no other task).
MutualExclusion ==
    \A r1 \in Runs : \A r2 \in Runs \ {r1} : \A x \in Displays :
        ~(Holds(r1, x) /\ Holds(r2, x))

\* C2: pool partition: once seeding has completed, every display of the
\* pool appears exactly once across the free and the leased queue.
PoolPartition ==
    SeedingDone =>
        \A x \in Displays :
            x < size => Count(free, x) + Count(leased, x) = 1

\* C4: crash reclamation: a display whose holder crashed (with or without a
\* lease record written) does not stay lost: it comes back to the free queue
\* or into the hands of a live task; and a task blocked in acquire meanwhile
\* obtains a display, unless another task obtained the reclaimed one.
CrashReclamation ==
    /\ \A x \in Displays :
          (\E r \in Runs : CrashedHolder(r, x)) ~> Recovered(x)
    /\ \A b \in Runs : \A x \in Displays :
          (pc[b] = "blmove" /\ (\E r \in Runs : CrashedHolder(r, x)) /\ ~Recovered(x))
             ~> (pc[b] # "blmove" \/ \E r \in Runs \ {b} : LiveHas(r, x))

\* C4 witness: the holder of the only display has crashed and the other
\* task, which was blocked in acquire, now holds that display under a lease
\* record of its own.
CrashReclamationWitness ==
    \E r \in Runs : \E b \in Runs \ {r} :
        /\ size = 1
        /\ CrashedHolder(r, 0)
        /\ Holds(b, 0)
        /\ leaseOwner[0] = b

\* C5: reaping never races acquisition: a reclaim step of reap_expired that
\* runs while a task is between BLMOVE and SET for display x does not put x
\* into the free queue.
ReapNeverRacesAcquire ==
    [][(rpc = "reclaim" /\ rpc' = "scan") =>
          \A r \in Runs :
              (pc[r] = "set_lease" /\ held[r] = ri) => ~InList(free', ri)]_vars

\* a task is inside seed_if_needed, or died inside it
InSeeding(r) ==
    pc[r] = "seed_push" \/ (pc[r] = "crashed" /\ held[r] = NoDisplay)

\* C15: however the seed_if_needed calls of the tasks interleave, no display
\* is pushed to free by seeding more than once, none outside the pool is
\* pushed, and once a call was made and every call has returned each of the
\* N displays has been pushed exactly once.
SeedingExactlyOnce ==
    /\ \A d \in Displays : seedPushes[d] <= (IF d < size THEN 1 ELSE 0)
    /\ (initialized /\ \A r \in Runs : ~InSeeding(r))
           => \A d \in 0 .. (size - 1) : seedPushes[d] = 1

\* two tasks have gone through seed_if_needed: one pushed, one skipped
SeedingExactlyOnceWitness ==
    /\ size = MaxPoolSize
    /\ \A r \in Runs : pc[r] \in {"blmove", "set_lease", "holding", "done"}
    /\ \A d \in 0 .. (size - 1) : seedPushes[d] = 1

\* C19: when a task releases the display x that acquire returned to it, x is
\* no more in the leased queue, its lease record is deleted and x is in the
\* free queue, where a later acquire can take it.
ReleaseRoundTrip ==
    [][\A r \in Runs : \A x \in Displays :
          (Holds(r, x) /\ pc'[r] = "done") =>
              /\ ~InList(leased', x)
              /\ leaseTTL'[x] = 0
              /\ leaseOwner'[x] = NoRun
              /\ InList(free', x)]_vars

\* run r holds display x while the lease record of x is that of another run,
\* which holds x as well: the lease of r on x is gone (expired, reaped) and x
\* was acquired again
StaleHolder(r, x) ==
    /\ Holds(r, x)
    /\ leaseTTL[x] > 0
    /\ leaseOwner[x] \notin {NoRun, r}
    /\ Holds(leaseOwner[x], x)

\* C37: a release(x) by a stale holder leaves the lease record of the new
\* holder and the leased queue as they are and puts nothing into the free
\* queue.
StaleReleaseHarmless ==
    [][\A r \in Runs : \A x \in Displays :
          (StaleHolder(r, x) /\ pc'[r] = "done") =>
              /\ leaseTTL'[x] = leaseTTL[x]
              /\ leaseOwner'[x] = leaseOwner[x]
              /\ leased' = leased
              /\ free' = free]_vars

\* the tasks that run a control loop against a display: acquire has returned
\* and release has not been called
Holders == {r \in Runs : pc[r] = "holding"}

\* C21: bounded parallelism: at every instant the number of tasks between a
\* successful acquire and their release is at most the pool size N.
BoundedParallelism == Cardinality(Holders) <= size

(***************************************************************************)
(* DisplayPool used by one caller, call after call: every action is one    *)
(* whole call of acquire, heartbeat, release or reap_expired, or the       *)
(* expiry of a lease record in Redis.  calls records each call with its    *)
(* argument, the number of displays that were free when BLMOVE ran, what   *)
(* the call returned and the exception it raised.                          *)
(***************************************************************************)
MaxCalls == 4       \* calls of one sequence
CallPoolSize == 3   \* largest pool size of a call sequence

CallDisplays == 0 .. (CallPoolSize - 1)

\* block_timeout values: 0, and a positive number of seconds
BlockTimeouts == {0, 1}

\* the Redis keys of the pool
Redis == <<initialized, free, leased, leaseTTL, leaseOwner>>

CallInit ==
    /\ size \in 1 .. CallPoolSize
    /\ initialized = FALSE
    /\ free = <<>>
    /\ leased = <<>>
    /\ leaseTTL = [d \in CallDisplays |-> 0]
    /\ leaseOwner = [d \in CallDisplays |-> NoRun]
    /\ seedPushes = [d \in CallDisplays |-> 0]
    /\ pc = [r \in Runs |-> "idle"]
    /\ held = [r \in Runs |-> NoDisplay]
    /\ rpc = "idle"
    /\ ri = 0
    /\ reclaimed = 0
    /\ calls = <<>>
    /\ before = <<>>
    /\ stuck = FALSE

CanCall == Len(calls) < MaxCalls /\ ~stuck

Called(op, arg, avail, ret, raised) ==
    /\ calls' = Append(calls, [op |-> op, arg |-> arg, avail |-> avail,
                               ret |-> ret, raised |-> raised])
    /\ before' = Redis

\* a BLMOVE that returns nil at once when the source list is empty
BLMoveEmptyNil(t) == "TimeoutError"

\* BLMOVE on an empty source list: with timeout 0 the client blocks without
\* limit, with a positive timeout nil is returned when it has elapsed and
\* acquire raises TimeoutError
BLMoveEmpty(t) == IF t = 0 THEN "blocked" ELSE "TimeoutError"

\* acquire(run_id, block_timeout): seed_if_needed, BLMOVE, SET lease
CallAcquire(r, t) ==
    /\ CanCall
    /\ LET seeded == IF initialized THEN free ELSE free \o SeedList(size) IN
       /\ initialized' = TRUE
       /\ seedPushes' = IF initialized THEN seedPushes
                        ELSE [d \in CallDisplays |->
                                 seedPushes[d] + Count(SeedList(size), d)]
       /\ IF seeded # <<>>
          THEN /\ free' = RightPop(seeded)
               /\ leased' = LPush(leased, RightElem(seeded))
               /\ leaseTTL' = [leaseTTL EXCEPT ![RightElem(seeded)] = LeaseTTL]
               /\ leaseOwner' = [leaseOwner EXCEPT ![RightElem(seeded)] = r]
               /\ Called("acquire", t, Len(seeded), RightElem(seeded), "")
               /\ UNCHANGED stuck
          ELSE /\ free' = seeded
               /\ Called("acquire", t, 0, NoDisplay, BLMoveEmpty(t))
               /\ stuck' = (BLMoveEmpty(t) = "blocked")
               /\ UNCHANGED <<leased, leaseTTL, leaseOwner>>
    /\ UNCHANGED <<size, pc, held, reaperVars>>
    /\ UNCHANGED <<taskVars, loopVars, runVars, webVars>>

\* a heartbeat that writes the lease record anew: SET lease:<disp> EX ttl
CallHeartbeatSet(x) ==
    /\ CanCall
    /\ x < size
    /\ leaseTTL' = [leaseTTL EXCEPT ![x] = LeaseTTL]
    /\ Called("heartbeat", x, Len(free), NoDisplay, "")
    /\ UNCHANGED <<size, initialized, free, leased, leaseOwner, seedPushes, pc,
                   held, reaperVars, stuck>>
    /\ UNCHANGED <<taskVars, loopVars, runVars, webVars>>

\* heartbeat(disp): EXPIRE lease:<disp> ttl
CallHeartbeat(x) ==
    /\ CanCall
    /\ x < size
    /\ leaseTTL' = [leaseTTL EXCEPT ![x] = IF leaseTTL[x] > 0 THEN LeaseTTL
                                                            ELSE 0]
    /\ Called("heartbeat", x, Len(free), NoDisplay, "")
    /\ UNCHANGED <<size, initialized, free, leased, leaseOwner, seedPushes, pc,
                   held, reaperVars, stuck>>
    /\ UNCHANGED <<taskVars, loopVars, runVars, webVars>>

\* release(disp): pipeline LREM leased 1 disp; LPUSH free disp; DEL lease
CallRelease(x) ==
    /\ CanCall
    /\ x < size
    /\ leased' = LRemFirst(leased, x)
    /\ free' = LPush(free, x)
    /\ leaseTTL' = [leaseTTL EXCEPT ![x] = 0]
    /\ leaseOwner' = [leaseOwner EXCEPT ![x] = NoRun]
    /\ Called("release", x, Len(free), NoDisplay, "")
    /\ UNCHANGED <<size, initialized, seedPushes, pc, held, reaperVars, stuck>>
    /\ UNCHANGED <<taskVars, loopVars, runVars, webVars>>

RECURSIVE ReapFromKeepLeased(_, _, _, _)
\* a reaping that pushes to free and leaves the leased list as it is
ReapFromKeepLeased(i, fr, le, cnt) ==
    IF i >= size THEN <<fr, le, cnt>>
    ELSE IF leaseTTL[i] = 0
         THEN ReapFromKeepLeased(i + 1, LPush(LRemAll(fr, i), i), le, cnt + 1)
         ELSE ReapFromKeepLeased(i + 1, fr, le, cnt)

RECURSIVE ReapFrom(_, _, _, _)
\* the loop of reap_expired from display i on: the free list, the leased list
\* and the count it ends with
ReapFrom(i, fr, le, cnt) ==
    IF i >= size THEN <<fr, le, cnt>>
    ELSE IF leaseTTL[i] = 0
         THEN ReapFrom(i + 1, LPush(LRemAll(fr, i), i), LRemAll(le, i), cnt + 1)
         ELSE ReapFrom(i + 1, fr, le, cnt)

\* reap_expired(), the whole call
CallReap ==
    /\ CanCall
    /\ LET res == ReapFrom(0, free, leased, 0) IN
       /\ free' = res[1]
       /\ leased' = res[2]
       /\ Called("reap", NoDisplay, Len(free), res[3], "")
    /\ UNCHANGED <<size, initialized, leaseTTL, leaseOwner, seedPushes, pc,
                   held, reaperVars, stuck>>
    /\ UNCHANGED <<taskVars, loopVars, runVars, webVars>>

\* the lease record of x reaches its time-to-live and Redis deletes it
LeaseExpires(x) ==
    /\ CanCall
    /\ x < size
    /\ leaseTTL[x] > 0
    /\ leaseTTL' = [leaseTTL EXCEPT ![x] = 0]
    /\ leaseOwner' = [leaseOwner EXCEPT ![x] = NoRun]
    /\ Called("expire", x, Len(free), NoDisplay, "")
    /\ UNCHANGED <<size, initialized, free, leased, seedPushes, pc, held,
                   reaperVars, stuck>>
    /\ UNCHANGED <<taskVars, loopVars, runVars, webVars>>

\* time passes: the lease record of x comes one tick closer to its expiry
LeaseAges(x) ==
    /\ CanCall
    /\ x < size
    /\ leaseTTL[x] > 1
    /\ leaseTTL' = [leaseTTL EXCEPT ![x] = leaseTTL[x] - 1]
    /\ Called("age", x, Len(free), NoDisplay, "")
    /\ UNCHANGED <<size, initialized, free, leased, leaseOwner, seedPushes, pc,
                   held, reaperVars, stuck>>
    /\ UNCHANGED <<taskVars, loopVars, runVars, webVars>>

CallNext ==
    \/ \E r \in Runs : \E t \in BlockTimeouts : CallAcquire(r, t)
    \/ \E x \in CallDisplays : CallHeartbeat(x)
    \/ \E x \in CallDisplays : CallRelease(x)
    \/ CallReap
    \/ \E x \in CallDisplays : LeaseExpires(x)
    \/ \E x \in CallDisplays : LeaseAges(x)

\* a fresh pool and a caller
InitCalls ==
    CallInit /\ TaskIdle /\ LoopIdle /\ RunIdle /\ WebIdle

SpecCalls == InitCalls /\ [][CallNext]_vars

\* the calls of kind op among the first j calls
CallsOf(op, j) == {i \in 1 .. j : calls[i].op = op}

\* no release and no reap_expired among the first j calls
NothingReturned(j) == CallsOf("release", j) \cup CallsOf("reap", j) = {}

\* C16: on a fresh pool of N displays, as long as no release and no reap has
\* been called, each of the first N acquire calls returns a display of the
\* pool and no two of them return the same one.
DistinctAcquisitions ==
    \A j \in 1 .. Len(calls) :
        (calls[j].op = "acquire" /\ NothingReturned(j)
            /\ Cardinality(CallsOf("acquire", j)) <= size)
        => /\ calls[j].raised = ""
           /\ calls[j].ret \in 0 .. (size - 1)
           /\ \A i \in CallsOf("acquire", j - 1) : calls[i].ret # calls[j].ret

\* three acquire calls on a pool of three have returned its three displays
DistinctAcquisitionsWitness ==
    /\ size = 3
    /\ Len(calls) = 3
    /\ \A i \in 1 .. 3 : calls[i].op = "acquire"
    /\ {calls[i].ret : i \in 1 .. 3} = {0, 1, 2}

\* C17 as stated: an acquire that finds no display free fails with
\* TimeoutError, for block_timeout 0 as well as for a positive block_timeout.
AcquireTimesOut ==
    \A j \in 1 .. Len(calls) :
        (calls[j].op = "acquire" /\ calls[j].avail = 0)
            => calls[j].raised = "TimeoutError"

\* C17 amended: an acquire that finds no display free fails with TimeoutError
\* when its block_timeout is positive and has elapsed; with block_timeout 0
\* it blocks without limit and never fails with TimeoutError.  In neither
\* case is a display returned or a list changed.
AcquireTimesOutWhenBounded ==
    /\ \A j \in 1 .. Len(calls) :
        (calls[j].op = "acquire" /\ calls[j].avail = 0) =>
            /\ calls[j].ret = NoDisplay
            /\ calls[j].raised =
                  (IF calls[j].arg > 0 THEN "TimeoutError" ELSE "blocked")
    /\ \A j \in 1 .. Len(calls) :
        (calls[j].op = "acquire" /\ calls[j].avail > 0) => calls[j].raised = ""
    /\ (calls # <<>> /\ calls[Len(calls)].op = "acquire"
            /\ calls[Len(calls)].avail = 0 /\ before[1])
           => (free = before[2] /\ leased = before[3])
    /\ stuck <=> (calls # <<>> /\ calls[Len(calls)].raised = "blocked")

\* the fourth acquire on a pool of three, with a positive block_timeout, has
\* failed with TimeoutError
AcquireTimesOutWhenBoundedWitness ==
    /\ size = 3
    /\ Len(calls) = 4
    /\ \A i \in 1 .. 4 : calls[i].op = "acquire"
    /\ calls[4].arg > 0
    /\ calls[4].raised = "TimeoutError"

\* C18: after release(x) was called twice in a row the pool is in the state
\* the first call left: x once in free, not in leased, without lease record.
ReleaseIdempotent ==
    (Len(calls) >= 2
        /\ calls[Len(calls)].op = "release"
        /\ calls[Len(calls) - 1].op = "release"
        /\ calls[Len(calls)].arg = calls[Len(calls) - 1].arg)
    => /\ Redis = before
       /\ Count(free, calls[Len(calls)].arg) = 1
       /\ ~InList(leased, calls[Len(calls)].arg)
       /\ leaseTTL[calls[Len(calls)].arg] = 0

\* C20: when reap_expired is called twice in a row, the second call returns 0.
ReapIdempotent ==
    (Len(calls) >= 2
        /\ calls[Len(calls)].op = "reap"
        /\ calls[Len(calls) - 1].op = "reap")
    => calls[Len(calls)].ret = 0

\* the last call made, and the Redis state it found
LastCall == calls[Len(calls)]
LeaseBefore(x) == before[4][x]

\* C26: after reap_expired, an identifier whose lease record existed is in
\* the free and the leased queue as often as before and has its lease record
\* unchanged; an identifier whose lease record was absent is in the free queue
\* exactly once and not in the leased queue, and still has no lease record.
ReapFrame ==
    (calls # <<>> /\ LastCall.op = "reap") =>
        \A x \in 0 .. (size - 1) :
            IF LeaseBefore(x) > 0
            THEN /\ Count(free, x) = Count(before[2], x)
                 /\ Count(leased, x) = Count(before[3], x)
                 /\ leaseTTL[x] = LeaseBefore(x)
                 /\ leaseOwner[x] = before[5][x]
            ELSE /\ Count(free, x) = 1
                 /\ Count(leased, x) = 0
                 /\ leaseTTL[x] = 0

\* reap_expired ran over a pool with one display under a live lease and one
\* display whose lease had expired while it was in the leased queue
ReapFrameWitness ==
    /\ calls # <<>>
    /\ LastCall.op = "reap"
    /\ \E x \in 0 .. (size - 1) : \E y \in 0 .. (size - 1) :
          /\ LeaseBefore(x) > 0
          /\ InList(leased, x)
          /\ LeaseBefore(y) = 0
          /\ InList(before[3], y)
          /\ Count(free, y) = 1

MaxRetries == 2

ResultStatuses == {"met", "unmet", "partially_met", "error"}

\* verificationrun_status_to_requirement_status
RequirementStatus(vs) ==
    IF vs = "met" THEN "met"
    ELSE IF vs = "partially_met" THEN "partially_met"
    ELSE IF vs = "unmet" THEN "unmet"
    ELSE IF vs = "error" THEN "error"
    ELSE IF vs = "processing" THEN "processing"
    ELSE IF vs = "unprocessed" THEN "unprocessed"
    ELSE "unmet"

\* data_root / f"{setup.id:03d}" / f"{req.id:03d}" / f"{pending.id:03d}":
\* the directory of the task's VerificationRun row
RunDirs == {"runs/001/001/001", "runs/001/001/002"}

TaskInit ==
    /\ tpc = "start"
    /\ maxRetries \in 0 .. MaxRetries
    /\ attempts = 0
    /\ computerBound = FALSE
    /\ browserOpen = FALSE
    /\ hasResult = FALSE
    /\ loopRuns = 0
    /\ releaseCount = 0
    /\ runStatus = "processing"
    /\ runDir = ""
    /\ attemptDirs = <<>>
    /\ exc = ""
    /\ pendingError = ""
    /\ reqStatus = "processing"

\* disp = pool.acquire(requirement_id, block_timeout=0)
TaskAcquire ==
    /\ tpc = "start"
    /\ tpc' = "setup"
    /\ UNCHANGED <<maxRetries, attempts, computerBound, browserOpen, hasResult,
                   loopRuns, releaseCount, runStatus, runDir, attemptDirs,
                   exc, pendingError>>
    /\ UNCHANGED reqStatus
    /\ UNCHANGED <<poolVars, loopVars, runVars, callVars, webVars>>

\* pending.save(), req.save(), run_dir.mkdir(exist_ok=False): outside any try
TaskSetup ==
    /\ tpc = "setup"
    /\ \E ok \in BOOLEAN :
          IF ok
             THEN /\ tpc' = "enter"
                  /\ \E d \in RunDirs : runDir' = d
                  /\ UNCHANGED exc
             ELSE /\ tpc' = "propagated"
                  /\ exc' = "SetupError"
                  /\ UNCHANGED runDir
    /\ attempts' = 0
    /\ UNCHANGED <<maxRetries, computerBound, browserOpen, hasResult,
                   loopRuns, releaseCount, runStatus, attemptDirs,
                   pendingError>>
    /\ UNCHANGED reqStatus
    /\ UNCHANGED <<poolVars, loopVars, runVars, callVars, webVars>>

\* while attempts <= max_retries: with DockerComputer(display=disp) as computer
TaskEnter ==
    /\ tpc = "enter"
    /\ attempts <= maxRetries
    /\ \E ok \in BOOLEAN :
          IF ok
             THEN /\ tpc' = "run"
                  /\ computerBound' = TRUE
                  /\ UNCHANGED exc
             ELSE /\ tpc' = "except"
                  /\ computerBound' = computerBound
                  /\ exc' = "RuntimeError"
    /\ UNCHANGED <<maxRetries, attempts, browserOpen, hasResult,
                   loopRuns, releaseCount, runStatus, runDir, attemptDirs,
                   pendingError>>
    /\ UNCHANGED reqStatus
    /\ UNCHANGED <<poolVars, loopVars, runVars, callVars, webVars>>

\* runner = VerficationRunner(..., run_dir=run_dir, ...);
\* result = runner.run(...); break
\* outcome "ok": run returned; "loop": it raised with the browser open;
\* "late": it raised after its own cleanup_browser (decision handling)
TaskRun ==
    /\ tpc = "run"
    /\ loopRuns' = loopRuns + 1
    /\ attemptDirs' = Append(attemptDirs, runDir)
    /\ \E outcome \in {"ok", "loop", "late"} :
          /\ tpc' = IF outcome = "ok" THEN "persist" ELSE "except"
          /\ hasResult' = (outcome = "ok")
          /\ browserOpen' = (outcome = "loop")
          /\ exc' = IF outcome = "ok" THEN "" ELSE "RunError"
    /\ UNCHANGED <<maxRetries, attempts, computerBound, releaseCount, runStatus,
                   runDir, pendingError>>
    /\ UNCHANGED reqStatus
    /\ UNCHANGED <<poolVars, loopVars, runVars, callVars, webVars>>

\* except Exception as run_exc: attempts += 1; computer.cleanup_browser();
\* if attempts > max_retries: raise
\* An unbound computer makes the handler raise UnboundLocalError.
TaskExcept ==
    /\ tpc = "except"
    /\ attempts' = attempts + 1
    /\ \E cleanupOk \in BOOLEAN :
          IF computerBound /\ cleanupOk
             THEN /\ browserOpen' = FALSE
                  /\ IF attempts + 1 > maxRetries
                        THEN tpc' = "outer_except" /\ exc' = exc
                        ELSE tpc' = "enter" /\ exc' = ""
             ELSE /\ browserOpen' = browserOpen
                  /\ tpc' = "outer_except"
                  /\ exc' = IF computerBound THEN "CleanupError"
                                             ELSE "UnboundLocalError"
    /\ UNCHANGED <<maxRetries, computerBound, hasResult, loopRuns,
                   releaseCount, runStatus, runDir, attemptDirs, pendingError>>
    /\ UNCHANGED reqStatus
    /\ UNCHANGED <<poolVars, loopVars, runVars, callVars, webVars>>

\* framework_run_to_models ... pending.save() ... _broadcast
TaskPersist ==
    /\ tpc = "persist"
    /\ \E st \in ResultStatuses : runStatus' = st
    /\ reqStatus' = RequirementStatus(runStatus')
    /\ tpc' = "finally"
    /\ UNCHANGED <<maxRetries, attempts, computerBound, browserOpen, hasResult,
                   loopRuns, releaseCount, runDir, attemptDirs, exc,
                   pendingError>>
    /\ UNCHANGED <<poolVars, loopVars, runVars, callVars, webVars>>

\* except Exception as e: pending.status = ERROR; pending.error = str(e) ...
TaskOuterExcept ==
    /\ tpc = "outer_except"
    /\ runStatus' = "error"
    /\ pendingError' = exc
    /\ reqStatus' = RequirementStatus(runStatus')
    /\ exc' = ""
    /\ tpc' = "finally"
    /\ UNCHANGED <<maxRetries, attempts, computerBound, browserOpen, hasResult,
                   loopRuns, releaseCount, runDir, attemptDirs>>
    /\ UNCHANGED <<poolVars, loopVars, runVars, callVars, webVars>>

\* finally: try: computer.cleanup_browser(); pool.release(disp)
\*          except Exception as e: print(...)
\* return pending.id
TaskFinally ==
    /\ tpc = "finally"
    /\ \E cleanupOk \in BOOLEAN :
          IF computerBound /\ cleanupOk
             THEN browserOpen' = FALSE /\ releaseCount' = releaseCount + 1
             ELSE browserOpen' = browserOpen /\ releaseCount' = releaseCount
    /\ tpc' = "returned"
    /\ UNCHANGED <<maxRetries, attempts, computerBound, hasResult, loopRuns,
                   runStatus, runDir, attemptDirs, exc, pendingError>>
    /\ UNCHANGED reqStatus
    /\ UNCHANGED <<poolVars, loopVars, runVars, callVars, webVars>>

TaskNext ==
    \/ TaskAcquire
    \/ TaskSetup
    \/ TaskEnter
    \/ TaskRun
    \/ TaskExcept
    \/ TaskPersist
    \/ TaskOuterExcept
    \/ TaskFinally

PoolIdle == PoolInit /\ size = 1

\* a task is started on a pool of one display
InitTask ==
    TaskInit /\ PoolIdle /\ LoopIdle /\ RunIdle /\ CallIdle /\ WebIdle

SpecTask == InitTask /\ [][TaskNext]_vars

\* the task is over: it returned, or an exception left it
TaskEnded == tpc \in {"returned", "propagated"}

(***************************************************************************)
(* Claims about run_verification_task.                                     *)
(***************************************************************************)

\* C3: release on every exit path: however the task ends once acquire has
\* returned a display, it has called pool.release on that display exactly
\* once and has cleaned up the GUI environment.
ReleaseOnEveryExit ==
    TaskEnded => (releaseCount = 1 /\ ~browserOpen)

\* the task went through the retry loop and left it without a result
GaveUp == tpc \in {"finally", "returned"} /\ ~hasResult

\* C35: when a task that has acquired a display is over, its VerificationRun
\* has the status met, unmet, partially_met or error and the Requirement has
\* the status that verificationrun_status_to_requirement_status gives for it.
TerminalStatus ==
    TaskEnded =>
        /\ runStatus \in ResultStatuses
        /\ reqStatus = RequirementStatus(runStatus)

\* C22: bounded retry: with max_retries = R the control loop is run at most
\* R+1 times, no attempt follows a successful one, and a task all of whose
\* attempts raised has given up after exactly R+1 attempts with the run
\* marked as error.
BoundedRetry ==
    /\ [](loopRuns <= maxRetries + 1)
    /\ [][hasResult => loopRuns' = loopRuns]_vars
    /\ [](GaveUp => (runStatus = "error" /\ attempts = maxRetries + 1))

\* C23: fresh run directory per attempt: every attempt of a task is given a
\* run directory different from that of every earlier attempt of the task, so
\* that no attempt writes into the directory of a failed one.
FreshRunDirPerAttempt ==
    \A i \in 1 .. Len(attemptDirs) : \A j \in 1 .. Len(attemptDirs) :
        i # j => attemptDirs[i] # attemptDirs[j]

(***************************************************************************)
(* VerficationRunner.run_full_turn and handle_item                          *)
(* (src/gui_spector/src/gui_spector/verfication/agent.py).                  *)
(*                                                                         *)
(* An item of the conversation is a record: type, role, whether a message  *)
(* carries a text part, the number of pending_safety_checks of a           *)
(* computer_call, whether the computer has an attribute of the name a      *)
(* function_call gives (known) and whether that attribute is a method      *)
(* (callable), and the call_id that links a call to its output.            *)
(***************************************************************************)
MaxTurns == 2       \* model requests of one run that are explored
MaxChecks == 1      \* pending_safety_checks of one computer_call

Item(t, r, x, n, k) ==
    [type |-> t, role |-> r, text |-> x, checks |-> n, known |-> k,
     callable |-> TRUE, call |-> 0, shot |-> 0]

Message(x) == Item("message", "assistant", x, 0, FALSE)
Reasoning == Item("reasoning", "", FALSE, 0, FALSE)
FunctionCall(k) == Item("function_call", "", FALSE, 0, k)
\* a function_call that names a data attribute of the computer (display,
\* dimensions, container_name, ...): hasattr is true, the value is no method
FunctionCallAttribute == [FunctionCall(TRUE) EXCEPT !.callable = FALSE]
ComputerCall(n) == Item("computer_call", "", FALSE, n, FALSE)

\* the items a model response can consist of
Emitted ==
    {Reasoning} \cup {Message(x) : x \in BOOLEAN}
        \cup {FunctionCall(k) : k \in BOOLEAN} \cup {FunctionCallAttribute}
        \cup {ComputerCall(n) : n \in 0 .. MaxChecks}

\* response["output"]: one or two items
Responses == {<<a>> : a \in Emitted} \cup {<<a, b>> : a, b \in Emitted}

\* the call_ids the model gives the items of a response are fresh
WithCallIds(resp, base) ==
    [i \in 1 .. Len(resp) |-> [resp[i] EXCEPT !.call = base + i]]

\* the screenshots captured so far, each saved under images/; the last one
\* is screenshot_base64 of the computer_call being handled
Captures == {i \in 1 .. Len(written) : written[i].kind = "image"}

\* the function_call_output or computer_call_output of an item; the latter
\* carries screenshot_base64 as its image_url
OutputOf(item) ==
    [type |-> IF item.type = "function_call" THEN "function_call_output"
                                             ELSE "computer_call_output",
     role |-> "", text |-> FALSE, checks |-> item.checks, known |-> FALSE,
     callable |-> TRUE, call |-> item.call,
     shot |-> IF item.type = "computer_call" THEN Cardinality(Captures)
                                             ELSE 0]

Last(seq) == seq[Len(seq)]

\* the last item the model emitted in the current turn is an assistant message
LastEmittedIsAssistant ==
    response # <<>> /\ Last(response).role = "assistant"

\* a loop that looks at the response's last item only
ContinueLoopLastEmitted ==
    IF response # <<>> THEN Last(response).role # "assistant" ELSE TRUE

\* while new_items[-1].get("role") != "assistant" if new_items else True
ContinueLoop ==
    IF newItems # <<>> THEN Last(newItems).role # "assistant" ELSE TRUE

\* isinstance(max_reasoning_steps, int) and max_reasoning_steps > 0
\*     and turns_completed >= max_reasoning_steps, with one turn too many
StepBudgetReachedLate(t) == maxSteps > 0 /\ t > maxSteps

\* isinstance(max_reasoning_steps, int) and max_reasoning_steps > 0
\*     and turns_completed >= max_reasoning_steps
StepBudgetReached(t) == maxSteps > 0 /\ t >= maxSteps

\* model requests of a run whose records and files are followed
MaxArtifactTurns == 3

\* Usage(tokens_in, tokens_out, tokens_reasoning, tokens_total)
Usage(i, o, r, t) ==
    [tokens_in |-> i, tokens_out |-> o, tokens_reasoning |-> r,
     tokens_total |-> t]

\* response["usage"]: absent, or one of two token counts
UsageReports == {<<>>, <<Usage(1, 2, 0, 3)>>, <<Usage(4, 1, 1, 5)>>}

\* an addition that adds up tokens_total only
UsageAddTotalOnly(u, v) ==
    [u EXCEPT !.tokens_total = u.tokens_total + v.tokens_total]

\* Usage.add
UsageAdd(u, v) ==
    Usage(u.tokens_in + v.tokens_in, u.tokens_out + v.tokens_out,
          u.tokens_reasoning + v.tokens_reasoning,
          u.tokens_total + v.tokens_total)

RECURSIVE UsageSumFrom(_, _)
\* for u in usages: total = total.add(u)
UsageSumFrom(total, us) ==
    IF us = <<>> THEN total
    ELSE UsageSumFrom(UsageAdd(total, Head(us)), Tail(us))

\* Usage.sum(usages): total = Usage(0, 0, 0, 0); ...; return total
UsageSum(us) == UsageSumFrom(Usage(0, 0, 0, 0), us)

\* Usage.sum(self._usages) if self._usages else None
UsageTotal(us) == IF us = <<>> THEN <<>> ELSE <<UsageSum(us)>>

\* a file of the run directory: images/<step>.png, responses/<step>_response
\* .json or interactions/<step>_interaction.json, with the turn that wrote it,
\* the call_id of the action an image shows and the usage a JSON file holds
File(kind, step, turn, call, usage) ==
    [kind |-> kind, step |-> step, turn |-> turn, call |-> call,
     usage |-> usage]

\* an Interaction that carries the screenshot of its own turn
InteractionOwnShot(turnIdx, extra, prev) ==
    [turn_index |-> turnIdx + 1, usage |-> extra.usage,
     action |-> extra.action, screenshot_path |-> extra.screenshot_path]

\* Interaction.create(turn_index=turn_idx+1, ..., screenshot_path=
\*     prev_screenshot_path, usage=extra.get("usage"), action=extra.get("action"))
NewInteraction(turnIdx, extra, prev) ==
    [turn_index |-> turnIdx + 1, usage |-> extra.usage,
     action |-> extra.action, screenshot_path |-> prev]

RECURSIVE InteractionsFrom(_, _, _, _, _)
\* for idx, extra in enumerate(self._response_extras): the first extra only
\* sets prev_screenshot_path, every later one appends an Interaction
InteractionsFrom(ex, i, prev, turnIdx, acc) ==
    IF i > Len(ex) THEN acc
    ELSE IF i = 1
         THEN InteractionsFrom(ex, i + 1, ex[i].screenshot_path, turnIdx, acc)
         ELSE InteractionsFrom(ex, i + 1, ex[i].screenshot_path, turnIdx + 1,
                               Append(acc, NewInteraction(turnIdx, ex[i], prev)))

\* run(..., print_steps, max_reasoning_steps) on a fresh runner
LoopInit ==
    /\ lpc = "loop"
    /\ maxSteps \in 0 .. MaxTurns
    /\ printSteps \in BOOLEAN
    /\ newItems = <<>>
    /\ response = <<>>
    /\ idx = 1
    /\ curExecuted = FALSE
    /\ acksDone = 0
    /\ rejected = FALSE
    /\ requests = 0
    /\ turnsCompleted = 0
    /\ stepCounter = 1
    /\ envActions = 0
    /\ envCalls = 0
    /\ lastError = ""
    /\ usages = <<>>
    /\ usageObj = <<>>
    /\ lastAction = <<>>
    /\ lastShot = <<>>
    /\ extras = <<>>
    /\ written = <<>>
    /\ interactions = <<>>
    /\ usageTotal = <<>>
    /\ runsStarted = 1

Handling == lpc = "handle" /\ idx <= Len(response)
Cur == response[idx]

\* the loop condition holds: create_response, the usage of the response is
\* collected, the response is saved and new_items += response["output"]
Request(resps, reports, maxTurns) ==
    /\ lpc = "loop"
    /\ ContinueLoop
    /\ requests < maxTurns
    /\ \E resp \in resps : \E report \in reports :
        LET out == WithCallIds(resp, Len(newItems)) IN
        /\ response' = out
        /\ newItems' = newItems \o out
        /\ usages' = usages \o report
        /\ usageObj' = report
        /\ written' = Append(written, File("response", stepCounter,
                                           requests + 1, 0, report))
    /\ lastAction' = <<>>
    /\ lastShot' = <<>>
    /\ requests' = requests + 1
    /\ idx' = 1
    /\ lpc' = "handle"
    /\ UNCHANGED <<maxSteps, printSteps, curExecuted, acksDone, rejected,
                   turnsCompleted, stepCounter, envActions, envCalls,
                   lastError, extras, interactions, usageTotal>>
    /\ UNCHANGED runsStarted
    /\ UNCHANGED <<poolVars, taskVars, runVars, callVars, webVars>>

\* a turn of the control loop, the response carrying no usage
LoopRequest == Request(Responses, {<<>>}, MaxTurns)

\* the loop condition fails: return new_items
LoopExit ==
    /\ lpc = "loop"
    /\ ~ContinueLoop
    /\ lpc' = "post"
    /\ UNCHANGED <<maxSteps, printSteps, newItems, response, idx, curExecuted,
                   acksDone, rejected, requests, turnsCompleted, stepCounter,
                   envActions, envCalls, lastError, artifactVars>>
    /\ UNCHANGED <<poolVars, taskVars, runVars, callVars, webVars>>

\* handle_item, item["type"] == "message" (and the types it does not know)
HandleMessage ==
    /\ Handling
    /\ Cur.type \in {"message", "reasoning"}
    /\ IF Cur.type = "message" /\ printSteps /\ ~Cur.text
       THEN \* print(item["content"][0]["text"]) raises KeyError
            /\ lpc' = "raised"
            /\ lastError' = "KeyError"
            /\ UNCHANGED <<idx, stepCounter>>
       ELSE /\ stepCounter' =
                  IF Cur.type = "message" THEN stepCounter + 1 ELSE stepCounter
            /\ idx' = idx + 1
            /\ UNCHANGED <<lpc, lastError>>
    /\ UNCHANGED <<maxSteps, printSteps, newItems, response, curExecuted,
                   acksDone, rejected, requests, turnsCompleted, envActions,
                   envCalls, artifactVars>>
    /\ UNCHANGED <<poolVars, taskVars, runVars, callVars, webVars>>

\* handle_item, item["type"] == "function_call":
\* if hasattr(self.computer, name): getattr(self.computer, name)(**args)
\* return [function_call_output]
\* Calling an attribute that is no method raises TypeError.
HandleFunctionCall ==
    /\ Handling
    /\ Cur.type = "function_call"
    /\ stepCounter' = stepCounter + 1
    /\ IF Cur.known /\ ~Cur.callable
       THEN /\ lpc' = "raised"
            /\ lastError' = "TypeError"
            /\ UNCHANGED <<envCalls, newItems, idx>>
       ELSE /\ envCalls' = IF Cur.known THEN envCalls + 1 ELSE envCalls
            /\ newItems' = Append(newItems, OutputOf(Cur))
            /\ idx' = idx + 1
            /\ UNCHANGED <<lpc, lastError>>
    /\ UNCHANGED <<maxSteps, printSteps, response, curExecuted, acksDone,
                   rejected, requests, turnsCompleted, envActions,
                   artifactVars>>
    /\ UNCHANGED <<poolVars, taskVars, runVars, callVars, webVars>>

\* a computer_call whose screenshot is saved without step_counter moving on
ExecComputerCallSameStep ==
    /\ Handling
    /\ Cur.type = "computer_call"
    /\ envActions' = envActions + 1
    /\ written' = Append(written, File("image", stepCounter, requests,
                                       Cur.call, <<>>))
    /\ stepCounter' = stepCounter
    /\ curExecuted' = TRUE
    /\ acksDone' = 0
    /\ lpc' = "ack"
    /\ UNCHANGED <<maxSteps, printSteps, newItems, response, idx, rejected,
                   requests, turnsCompleted, envCalls, lastError, usages,
                   usageObj, lastAction, lastShot, extras, interactions,
                   usageTotal>>
    /\ UNCHANGED runsStarted
    /\ UNCHANGED <<poolVars, taskVars, runVars, callVars, webVars>>

\* a computer_call whose action is executed without a screenshot being taken
ExecComputerCallNoShot ==
    /\ Handling
    /\ Cur.type = "computer_call"
    /\ envActions' = envActions + 1
    /\ stepCounter' = stepCounter + 1
    /\ curExecuted' = TRUE
    /\ acksDone' = 0
    /\ lpc' = "ack"
    /\ UNCHANGED <<maxSteps, printSteps, newItems, response, idx, rejected,
                   requests, turnsCompleted, envCalls, lastError, artifactVars>>
    /\ UNCHANGED <<poolVars, taskVars, runVars, callVars, webVars>>

\* handle_item, item["type"] == "computer_call": the action is executed, the
\* screenshot is taken and saved as images/<step_counter>.png, step_counter
\* is incremented
ExecComputerCall ==
    /\ Handling
    /\ Cur.type = "computer_call"
    /\ envActions' = envActions + 1
    /\ written' = Append(written, File("image", stepCounter, requests,
                                       Cur.call, <<>>))
    /\ stepCounter' = stepCounter + 1
    /\ curExecuted' = TRUE
    /\ acksDone' = 0
    /\ lpc' = "ack"
    /\ UNCHANGED <<maxSteps, printSteps, newItems, response, idx, rejected,
                   requests, turnsCompleted, envCalls, lastError, usages,
                   usageObj, lastAction, lastShot, extras, interactions,
                   usageTotal>>
    /\ UNCHANGED runsStarted
    /\ UNCHANGED <<poolVars, taskVars, runVars, callVars, webVars>>

\* an acknowledgment loop that goes on after the callback returned False
AckSafetyCheckLenient ==
    /\ lpc = "ack"
    /\ acksDone < Cur.checks
    /\ \E ok \in BOOLEAN :
        /\ rejected' = (rejected \/ ~ok)
        /\ acksDone' = acksDone + 1
    /\ UNCHANGED <<lpc, lastError>>
    /\ UNCHANGED <<maxSteps, printSteps, newItems, response, idx, curExecuted,
                   requests, turnsCompleted, stepCounter, envActions,
                   envCalls, artifactVars>>
    /\ UNCHANGED <<poolVars, taskVars, runVars, callVars, webVars>>

\* for check in pending_checks:
\*     if not self.acknowledge_safety_check_callback(message): raise ValueError
AckSafetyCheck ==
    /\ lpc = "ack"
    /\ acksDone < Cur.checks
    /\ \E ok \in BOOLEAN :
        IF ok
        THEN /\ acksDone' = acksDone + 1
             /\ UNCHANGED <<lpc, lastError, rejected>>
        ELSE /\ rejected' = TRUE
             /\ lpc' = "raised"
             /\ lastError' = "ValueError"
             /\ UNCHANGED acksDone
    /\ UNCHANGED <<maxSteps, printSteps, newItems, response, idx, curExecuted,
                   requests, turnsCompleted, stepCounter, envActions,
                   envCalls, artifactVars>>
    /\ UNCHANGED <<poolVars, taskVars, runVars, callVars, webVars>>

\* an output that is queued without waiting for the acknowledgments
QueueCallOutputEarly ==
    /\ lpc = "ack"
    /\ newItems' = Append(newItems, OutputOf(Cur))
    /\ lastAction' = <<Cur.call>>
    /\ lastShot' = <<stepCounter - 1>>
    /\ idx' = idx + 1
    /\ curExecuted' = FALSE
    /\ acksDone' = 0
    /\ lpc' = "handle"
    /\ UNCHANGED <<maxSteps, printSteps, response, rejected, requests,
                   turnsCompleted, stepCounter, envActions, envCalls,
                   lastError, usages, usageObj, extras, written, interactions,
                   usageTotal>>
    /\ UNCHANGED runsStarted
    /\ UNCHANGED <<poolVars, taskVars, runVars, callVars, webVars>>

\* every check was acknowledged: the action and the file of its screenshot
\* (named by the step before the increment) are recorded for this turn;
\* return [call_output]
QueueCallOutput ==
    /\ lpc = "ack"
    /\ acksDone = Cur.checks
    /\ newItems' = Append(newItems, OutputOf(Cur))
    /\ lastAction' = <<Cur.call>>
    /\ lastShot' = <<stepCounter - 1>>
    /\ idx' = idx + 1
    /\ curExecuted' = FALSE
    /\ acksDone' = 0
    /\ lpc' = "handle"
    /\ UNCHANGED <<maxSteps, printSteps, response, rejected, requests,
                   turnsCompleted, stepCounter, envActions, envCalls,
                   lastError, usages, usageObj, extras, written, interactions,
                   usageTotal>>
    /\ UNCHANGED runsStarted
    /\ UNCHANGED <<poolVars, taskVars, runVars, callVars, webVars>>

\* every item of the response was handled: the per-turn interaction JSON is
\* written, the turn is appended to self._response_extras, turns_completed
\* += 1 and the step budget
TurnEnd ==
    /\ lpc = "handle"
    /\ idx > Len(response)
    /\ written' = Append(written, File("interaction", stepCounter, requests,
                                       0, usageObj))
    /\ extras' = Append(extras, [usage |-> usageObj, action |-> lastAction,
                                 screenshot_path |-> lastShot])
    /\ turnsCompleted' = turnsCompleted + 1
    /\ IF StepBudgetReached(turnsCompleted + 1)
       THEN /\ lpc' = "raised"
            /\ lastError' = "MaximumReasoningStepsReached"
       ELSE /\ lpc' = "loop"
            /\ UNCHANGED lastError
    /\ UNCHANGED <<maxSteps, printSteps, newItems, response, idx, curExecuted,
                   acksDone, rejected, requests, stepCounter, envActions,
                   envCalls, usages, usageObj, lastAction, lastShot,
                   interactions, usageTotal>>
    /\ UNCHANGED runsStarted
    /\ UNCHANGED <<poolVars, taskVars, runVars, callVars, webVars>>

\* run() after run_full_turn has returned: the interactions and the
\* usage_total of the result
BuildResult ==
    /\ lpc = "post"
    /\ interactions' = InteractionsFrom(extras, 1, <<>>, 0, <<>>)
    /\ usageTotal' = UsageTotal(usages)
    /\ lpc' = "built"
    /\ UNCHANGED <<maxSteps, printSteps, newItems, response, idx, curExecuted,
                   acksDone, rejected, requests, turnsCompleted, stepCounter,
                   envActions, envCalls, lastError, usages, usageObj,
                   lastAction, lastShot, extras, written>>
    /\ UNCHANGED runsStarted
    /\ UNCHANGED <<poolVars, taskVars, runVars, callVars, webVars>>

LoopNext ==
    \/ LoopRequest
    \/ LoopExit
    \/ HandleMessage
    \/ HandleFunctionCall
    \/ ExecComputerCall
    \/ AckSafetyCheck
    \/ QueueCallOutput
    \/ TurnEnd
    \/ BuildResult

\* run_full_turn is entered
InitLoop ==
    LoopInit /\ PoolIdle /\ TaskIdle /\ RunIdle /\ CallIdle /\ WebIdle

SpecLoop == InitLoop /\ [][LoopNext]_vars

(***************************************************************************)
(* The same loop followed over more turns, with fewer kinds of response    *)
(* and with the usage each response reports.                               *)
(***************************************************************************)
ArtifactResponses ==
    { <<Message(TRUE)>>, <<Reasoning>>, <<FunctionCall(TRUE)>>,
      <<ComputerCall(MaxChecks)>>, <<ComputerCall(0), ComputerCall(0)>> }

ArtifactRequest == Request(ArtifactResponses, UsageReports, MaxArtifactTurns)

ArtifactNext ==
    \/ ArtifactRequest
    \/ LoopExit
    \/ HandleMessage
    \/ HandleFunctionCall
    \/ ExecComputerCall
    \/ AckSafetyCheck
    \/ QueueCallOutput
    \/ TurnEnd
    \/ BuildResult

SpecArtifacts == InitLoop /\ [][ArtifactNext]_vars

(***************************************************************************)
(* One VerficationRunner on which run() is called again after it has       *)
(* returned a result, as run_all does for each requirement of its list.    *)
(***************************************************************************)
MaxRuns == 2          \* calls of run() on one runner
MaxReuseTurns == 2    \* model requests of each of these runs

ReuseResponses ==
    { <<Message(TRUE)>>, <<FunctionCall(TRUE)>>, <<ComputerCall(MaxChecks)>> }

ReuseReports == {<<>>, <<Usage(1, 2, 0, 3)>>}

ReuseRequest == Request(ReuseResponses, ReuseReports, MaxReuseTurns)

\* run() is entered again: self._usages, self._last_action and
\* self._last_screenshot_path are reset and run_full_turn starts with its
\* own new_items and turns_completed; run_all passes no max_reasoning_steps.
\* self._response_extras and self.step_counter are set in __init__ only.
RunAgain ==
    /\ lpc = "built"
    /\ runsStarted < MaxRuns
    /\ runsStarted' = runsStarted + 1
    /\ usages' = <<>>
    /\ lastAction' = <<>>
    /\ lastShot' = <<>>
    /\ usageObj' = <<>>
    /\ interactions' = <<>>
    /\ usageTotal' = <<>>
    /\ newItems' = <<>>
    /\ response' = <<>>
    /\ idx' = 1
    /\ requests' = 0
    /\ turnsCompleted' = 0
    /\ maxSteps' = 0
    /\ lpc' = "loop"
    /\ UNCHANGED <<printSteps, curExecuted, acksDone, rejected, stepCounter,
                   envActions, envCalls, lastError, extras, written>>
    /\ UNCHANGED <<poolVars, taskVars, runVars, callVars, webVars>>

ReuseNext ==
    \/ ReuseRequest
    \/ LoopExit
    \/ HandleMessage
    \/ HandleFunctionCall
    \/ ExecComputerCall
    \/ AckSafetyCheck
    \/ QueueCallOutput
    \/ TurnEnd
    \/ BuildResult
    \/ RunAgain

SpecReuse == InitLoop /\ [][ReuseNext]_vars

\* some item of the current turn made handle_item queue an output item
TurnQueuedOutput ==
    \E i \in 1 .. Len(response) :
        response[i].type \in {"function_call", "computer_call"}

\* an output item with this call_id is in new_items
OutputQueued(call) ==
    \E i \in 1 .. Len(newItems) :
        /\ newItems[i].type \in {"function_call_output", "computer_call_output"}
        /\ newItems[i].call = call

\* C6 as stated: after a completed turn the loop stops exactly when the last
\* item the model emitted in that turn is an assistant message, whatever
\* other items the turn contains; otherwise another request is issued.
LoopEndsOnLastEmittedMessage ==
    [][(lpc = "loop" /\ requests > 0) =>
          IF LastEmittedIsAssistant
          THEN lpc' = "post" /\ requests' = requests
          ELSE requests' = requests + 1]_vars

\* C6 amended: after a completed turn the loop stops exactly when the last
\* item the model emitted in that turn is an assistant message and no item of
\* the turn is a function call or a GUI action call, whose queued output
\* items come after the message in new_items; otherwise another request is
\* issued.
LoopEndsOnLastQueuedItem ==
    [][(lpc = "loop" /\ requests > 0) =>
          IF LastEmittedIsAssistant /\ ~TurnQueuedOutput
          THEN lpc' = "post" /\ requests' = requests
          ELSE requests' = requests + 1]_vars

\* a second request was issued although the first turn's last emitted item
\* was an assistant message: a call of that turn queued its output after it
LoopEndsOnLastQueuedItemWitness ==
    /\ requests = 2
    /\ \E i \in 1 .. (Len(newItems) - 1) :
        /\ newItems[i].type = "message"
        /\ newItems[i + 1].type \in
               {"function_call_output", "computer_call_output"}

\* C7: with a step budget M configured at most M requests are issued and
\* MaximumReasoningStepsReachedException is raised after exactly M completed
\* turns, also when the Mth turn ended with an assistant message; without a
\* configured budget it is never raised.
StepBudget ==
    /\ (maxSteps > 0 => requests <= maxSteps)
    /\ (lastError = "MaximumReasoningStepsReached"
            <=> (maxSteps > 0 /\ turnsCompleted = maxSteps))

\* the budget was exhausted by a turn that ended with an assistant message
StepBudgetWitness ==
    /\ lastError = "MaximumReasoningStepsReached"
    /\ maxSteps = 2
    /\ requests = 2
    /\ ~ContinueLoop

\* C8 as stated: whenever the GUI action of a computer_call has been executed
\* on the environment, every pending safety check of that call has been
\* acknowledged before; an action with a rejected check is never executed.
AckBeforeExecute ==
    curExecuted => (acksDone = Cur.checks /\ ~rejected)

\* C8 amended: the action of a computer_call is executed first; the callback
\* is asked only afterwards, and every pending check of the call has been
\* accepted when the computer_call_output of the call is queued.  An action
\* with a rejected check has been executed, and no output is queued for it.
AckBeforeOutputQueued ==
    /\ []((lpc = "ack" \/ rejected) => curExecuted)
    /\ [][(Len(newItems') > Len(newItems)
              /\ Last(newItems').type = "computer_call_output")
           => (curExecuted /\ acksDone = Cur.checks /\ ~rejected)]_vars

\* the output of a call that carried a safety check has been queued
AckBeforeOutputQueuedWitness ==
    \E i \in 1 .. Len(newItems) :
        /\ newItems[i].type = "computer_call_output"
        /\ newItems[i].checks > 0

\* C9: once the callback has rejected a safety check, handle_item has raised
\* ValueError, no computer_call_output is queued for that call, no further
\* model request is issued and run() does not come to return a result.
RejectedCheckIsFatal ==
    /\ [](rejected => /\ lpc = "raised"
                      /\ lastError = "ValueError"
                      /\ ~OutputQueued(Cur.call))
    /\ [][rejected => /\ requests' = requests
                      /\ newItems' = newItems
                      /\ lpc' = "raised"]_vars

\* the callback rejected a check of a computer_call
RejectedCheckIsFatalWitness ==
    /\ rejected
    /\ lpc = "raised"
    /\ Cur.type = "computer_call"
    /\ Cur.checks > 0

(***************************************************************************)
(* Claims about what a run records and writes.                             *)
(***************************************************************************)
\* the files of a kind that a turn wrote, by their position in written
WrittenIn(kind, k) ==
    {i \in 1 .. Len(written) : written[i].kind = kind /\ written[i].turn = k}

\* the file of a kind that a turn wrote last
LastWritten(kind, k) ==
    written[CHOOSE i \in WrittenIn(kind, k) :
                \A j \in WrittenIn(kind, k) : j <= i]

\* the screenshot captured in turn k: the last image the turn saved
ShotOf(k) ==
    IF WrittenIn("image", k) = {} THEN <<>>
    ELSE <<LastWritten("image", k).step>>

\* the GUI action of turn k: the action the last image of the turn shows
ActionOf(k) ==
    IF WrittenIn("image", k) = {} THEN <<>>
    ELSE <<LastWritten("image", k).call>>

\* the usage the response of turn k reported
ReportOf(k) == LastWritten("response", k).usage

\* the names of the files of a kind in the run directory
FileNames(kind) ==
    {written[i].step : i \in {j \in 1 .. Len(written) : written[j].kind = kind}}

OneArtifactPerTurnAndAction ==
    /\ Cardinality(FileNames("response")) = requests
    /\ Cardinality(FileNames("interaction")) = turnsCompleted
    /\ Cardinality(FileNames("image")) = envActions

Counters == {"tokens_in", "tokens_out", "tokens_reasoning", "tokens_total"}

RECURSIVE CounterOverTurns(_, _)
\* the sum of one counter over the usage reported in turns 1 .. k
CounterOverTurns(c, k) ==
    IF k = 0 THEN 0
    ELSE CounterOverTurns(c, k - 1)
            + (IF ReportOf(k) = <<>> THEN 0 ELSE ReportOf(k)[1][c])

\* the usages a run of the model can sum
Summands ==
    {UsageSum(usages), Usage(0, 0, 0, 0)}
        \cup {usages[i] : i \in 1 .. Len(usages)}

\* C30: the usage_total of the result is, counter by counter, the sum of the
\* usage reported over all turns of the run, and absent when no turn reported
\* usage; Usage.sum does not depend on how the list is split, Usage.add is
\* associative and the all-zero Usage is its identity.
UsageTotalIsSum ==
    /\ lpc = "built" =>
          IF \A k \in 1 .. requests : ReportOf(k) = <<>>
          THEN usageTotal = <<>>
          ELSE /\ usageTotal # <<>>
               /\ \A c \in Counters :
                     usageTotal[1][c] = CounterOverTurns(c, requests)
    /\ \A k \in 0 .. Len(usages) :
          UsageSum(usages) =
              UsageAdd(UsageSum(SubSeq(usages, 1, k)),
                       UsageSum(SubSeq(usages, k + 1, Len(usages))))
    /\ \A u \in Summands :
          /\ UsageAdd(Usage(0, 0, 0, 0), u) = u
          /\ UsageAdd(u, Usage(0, 0, 0, 0)) = u
    /\ \A a \in Summands : \A b \in Summands : \A c \in Summands :
          UsageAdd(UsageAdd(a, b), c) = UsageAdd(a, UsageAdd(b, c))

\* a run of three turns of which two reported usage, with different counts
UsageTotalIsSumWitness ==
    /\ lpc = "built"
    /\ requests = 3
    /\ Len(usages) = 2
    /\ usages[1] # usages[2]
    /\ usageTotal # <<>>

\* the function_call_output items of new_items that carry this call_id
OutputsFor(call) ==
    {j \in 1 .. Len(newItems) :
        newItems[j].type = "function_call_output" /\ newItems[j].call = call}

\* the function_call items of new_items whose name the computer has
KnownFunctionCalls ==
    {i \in 1 .. Len(newItems) :
        newItems[i].type = "function_call" /\ newItems[i].known}

\* no item of a turn is being handled: the next model request, or the end
BetweenTurns == lpc \in {"loop", "post", "built"}

\* C31: handling a function_call item queues exactly one
\* function_call_output with its call_id and invokes the named capability
\* once if the computer has it and not at all otherwise; so before every
\* model request each function_call of the conversation has exactly one
\* output, queued after it, and the capabilities invoked are as many as the
\* function_calls whose name the computer has.
ToolCallAcknowledged ==
    /\ [][(Handling /\ Cur.type = "function_call") =>
            /\ newItems' = Append(newItems, OutputOf(Cur))
            /\ OutputOf(Cur).type = "function_call_output"
            /\ OutputOf(Cur).call = Cur.call
            /\ envCalls' = envCalls + (IF Cur.known THEN 1 ELSE 0)]_vars
    /\ [](BetweenTurns =>
            \A i \in 1 .. Len(newItems) :
                newItems[i].type = "function_call" =>
                    /\ Cardinality(OutputsFor(newItems[i].call)) = 1
                    /\ \A j \in OutputsFor(newItems[i].call) : j > i)
    /\ [](BetweenTurns => envCalls = Cardinality(KnownFunctionCalls))

\* the positions in written of the screenshots taken for this call_id
CapturesFor(call) == {i \in Captures : written[i].call = call}

\* how many screenshots had been captured when the one at position i was
NthCapture(i) == Cardinality({j \in Captures : j <= i})

\* the computer_call_output items of new_items
CallOutputs ==
    {j \in 1 .. Len(newItems) : newItems[j].type = "computer_call_output"}

Terminated ==
    /\ newItems # <<>>
    /\ ~ContinueLoop
    /\ turnsCompleted = requests

\* C33: a run whose terminal assistant message comes in turn k, with no
\* maximum configured or k <= M, is not left by an exception: it returns its
\* items; and MaximumReasoningStepsReachedException is raised only when the
\* last completed turn did not terminate the run.
ReturnsWithinBudget ==
    /\ (Terminated /\ (maxSteps > 0 => turnsCompleted <= maxSteps))
            => (lpc \in {"loop", "post", "built"} /\ lastError = "")
    /\ (lastError = "MaximumReasoningStepsReached" => ~Terminated)

\* steps_taken of the result
StepsTaken == stepCounter - 2

\* the items of this run that handle_item counted as a step
StepsOfRun ==
    {i \in 1 .. Len(newItems) :
        newItems[i].type \in {"message", "function_call", "computer_call"}}

\* the turns this run appended to self._response_extras
ExtrasOfRun ==
    SubSeq(extras, Len(extras) - turnsCompleted + 1, Len(extras))

\* C34: the result of every run() on a runner has one Interaction for each
\* turn of that run but its first, built from the records of these turns
\* only, a steps_taken that counts the items handled in that run only
\* (their number less one), and the usage_total of that run's reports.
PerRunIsolation ==
    lpc = "built" =>
        /\ interactions = InteractionsFrom(ExtrasOfRun, 1, <<>>, 0, <<>>)
        /\ Len(interactions) = turnsCompleted - 1
        /\ StepsTaken = Cardinality(StepsOfRun) - 1
        /\ usageTotal = UsageTotal(usages)

(***************************************************************************)
(* VerficationRunner.run after run_full_turn has returned: _extract_json,  *)
(* _derive_status_from_acceptance, _validate_acceptance_criteria_names.    *)
(*                                                                         *)
(* A text is a sequence of tokens: "{" and "}", "f" for a code fence, "w"  *)
(* for prose that is not JSON, "n" for white space, "r" for the member     *)
(* "acceptance_criteria_results": [...] whose value is modelResults, and   *)
(* "s" for the member "status": ... whose value is modelStatus.            *)
(***************************************************************************)
MaxTexts == 2       \* message items with a text in items
MaxResults == 2     \* entries of acceptance_criteria_results

\* criterion names, after str(name).strip()
Names == {"AC-1", "AC-2"}

\* the texts a message can carry
TextContents ==
    { <<>>, <<"w">>, <<"{", "w", "}">>, <<"{", "}">>, <<"{", "r", "}">>,
      <<"f", "{", "r", "}", "f">>, <<"{", "s", "}">>, <<"{", "s", "r", "}">> }

\* the top-level status values a model reports
TopStatuses == {"met", "error"}

\* the status strings an entry carries in place of a boolean met
StatusStrings == {"", " Met", "fail", "n/a"}

\* str(...).strip().lower()
Normalize(str) == IF str = " Met" THEN "met" ELSE str

\* an entry of acceptance_criteria_results: met is True, False or absent
\* ("None"); an entry without a boolean met may carry a status string
Entries ==
    {e \in [criterion_name : Names, met : {"True", "False", "None"},
            status : StatusStrings] : e.met = "None" \/ e.status = ""}

SeqsUpTo(S, n) == UNION {[1 .. k -> S] : k \in 0 .. n}

\* "\n\n".join(text_segments)
RECURSIVE Join(_)
Join(segs) ==
    IF Len(segs) = 0 THEN <<>>
    ELSE IF Len(segs) = 1 THEN segs[1]
    ELSE segs[1] \o <<"n", "n">> \o Join(Tail(segs))

Positions(seq, tok) == {i \in 1 .. Len(seq) : seq[i] = tok}
Min(S) == CHOOSE x \in S : \A y \in S : x <= y
Max(S) == CHOOSE x \in S : \A y \in S : x >= y

\* re.search(r"```(?:json)?\s*([\s\S]*?)\s*```", full_text):
\* candidate = fenced.group(1) if fenced else full_text
Candidate(full) ==
    LET ticks == Positions(full, "f") IN
    IF Cardinality(ticks) >= 2
    THEN LET a == Min(ticks)
             b == Min(ticks \ {a})
         IN  SubSeq(full, a + 1, b - 1)
    ELSE full

\* re.findall(r"\{[\s\S]*\}", candidate): the span from the first "{" to the
\* last "}", if there is one
JsonLike(cand) ==
    LET opens == Positions(cand, "{")
        closes == Positions(cand, "}")
    IN  IF opens # {} /\ closes # {} /\ Min(opens) < Max(closes)
        THEN <<SubSeq(cand, Min(opens), Max(closes))>>
        ELSE <<>>

\* json.loads(last) succeeds: an object of members and white space
ValidJson(span) ==
    \A i \in 2 .. (Len(span) - 1) : span[i] \in {"r", "s", "n"}

\* json.loads(last)
Loads(span, reported, top) ==
    LET members == {span[i] : i \in 1 .. Len(span)} IN
    [none |-> FALSE,
     hasResults |-> "r" \in members,
     results |-> IF "r" \in members THEN reported ELSE <<>>,
     hasStatus |-> "s" \in members,
     status |-> IF "s" \in members THEN top ELSE ""]

\* _extract_json(items): the tuple it returns
ExtractJson(segs, reported, top) ==
    IF segs = <<>> THEN <<NoneJson, "no_assistant_text">>
    ELSE LET found == JsonLike(Candidate(Join(segs))) IN
         IF found = <<>> THEN <<NoneJson, "no_json_output">>
         ELSE IF ValidJson(found[1])
              THEN <<Loads(found[1], reported, top), "", found[1]>>
              ELSE <<NoneJson, "json_parse_error", found[1]>>

\* the truth value of parsed_json: not None and not the empty object
Truthy(parsed) == ~parsed.none /\ (parsed.hasResults \/ parsed.hasStatus)

MetWords == {"met", "pass", "true", "yes", "1"}
UnmetWords == {"unmet", "fail", "false", "no", "0"}

\* a derivation that reports a mixed list as unmet
DeriveStatusNoPartial(parsed) ==
    LET results == parsed.results
        anyUnmet == \E i \in 1 .. Len(results) :
            \/ results[i].met = "False"
            \/ /\ results[i].met = "None"
               /\ Normalize(results[i].status) \in UnmetWords
    IN  IF Len(results) = 0 THEN "error"
        ELSE IF anyUnmet THEN "unmet"
        ELSE "met"

\* _derive_status_from_acceptance(parsed_json)
DeriveStatus(parsed) ==
    LET results == parsed.results
        anyMet == \E i \in 1 .. Len(results) :
            \/ results[i].met = "True"
            \/ /\ results[i].met = "None"
               /\ Normalize(results[i].status) \in MetWords
        anyUnmet == \E i \in 1 .. Len(results) :
            \/ results[i].met = "False"
            \/ /\ results[i].met = "None"
               /\ Normalize(results[i].status) \in UnmetWords
    IN  IF Len(results) = 0 THEN "error"
        ELSE IF anyMet /\ anyUnmet THEN "partially_met"
        ELSE IF anyMet THEN "met"
        ELSE "unmet"

\* a status that follows the top-level status of the decision when it has one
DecideStatusTopLevel(parsed, parseError) ==
    IF Truthy(parsed)
    THEN (IF parsed.hasStatus THEN parsed.status ELSE DeriveStatus(parsed))
    ELSE IF parseError # "" THEN "error"
    ELSE "unmet"

\* status = UNMET; if parsed_json and isinstance(parsed_json, dict): status =
\* self._derive_status_from_acceptance(parsed_json); elif parse_error: ERROR
DecideStatus(parsed, parseError) ==
    IF Truthy(parsed) THEN DeriveStatus(parsed)
    ELSE IF parseError # "" THEN "error"
    ELSE "unmet"

\* reported_names of _validate_acceptance_criteria_names
ReportedNames(parsed) ==
    {parsed.results[i].criterion_name : i \in 1 .. Len(parsed.results)}

\* run_full_turn has returned: items holds the conversation
RunInit ==
    /\ dpc = "post"
    /\ texts \in SeqsUpTo(TextContents, MaxTexts)
    /\ modelResults \in SeqsUpTo(Entries, MaxResults)
    /\ modelStatus \in TopStatuses
    /\ acNames \in SUBSET Names
    /\ extract = <<>>
    /\ result = NoResult
    /\ runError = ""
    /\ mismatch = NoMismatch
    /\ resultJson = FALSE

\* parsed_json, parse_error, last_json = self._extract_json(items) and the
\* rest of run()
RunDecide ==
    /\ dpc = "post"
    /\ LET t == ExtractJson(texts, modelResults, modelStatus) IN
       /\ extract' = t
       /\ IF Len(t) # 3
          THEN \* the tuple of two values cannot be unpacked into three names
               /\ dpc' = "raised"
               /\ runError' = "ValueError"
               /\ UNCHANGED <<result, mismatch, resultJson>>
          ELSE LET parsed == t[1]
                   parseError == t[2]
                   status == DecideStatus(parsed, parseError)
               IN  IF Truthy(parsed) /\ acNames # ReportedNames(parsed)
                   THEN /\ dpc' = "raised"
                        /\ runError' = "AcceptanceCriteriaMismatch"
                        /\ mismatch' =
                              [missing |-> acNames \ ReportedNames(parsed),
                               extra |-> ReportedNames(parsed) \ acNames]
                        /\ UNCHANGED <<result, resultJson>>
                   ELSE /\ dpc' = "returned"
                        /\ resultJson' = (resultJson \/ Truthy(parsed))
                        /\ result' = [status |-> status,
                                      model_decision |-> parsed,
                                      error |-> parseError]
                        /\ UNCHANGED <<runError, mismatch>>
    /\ UNCHANGED <<texts, modelResults, modelStatus, acNames>>
    /\ UNCHANGED <<poolVars, taskVars, loopVars, callVars, webVars>>

RunNext == RunDecide

\* run_full_turn has returned
InitRun ==
    RunInit /\ PoolIdle /\ TaskIdle /\ LoopIdle /\ CallIdle /\ WebIdle

SpecRun == InitRun /\ [][RunNext]_vars

(***************************************************************************)
(* One task with its attempts: the retry loop of run_verification_task     *)
(* around runner.run, whose decision handling is RunDecide.                *)
(***************************************************************************)
MaxAttemptTexts == 1     \* message texts of one attempt
MaxAttemptResults == 1   \* reported entries of one attempt

\* result = runner.run(...): run_full_turn or run()'s own cleanup_browser
\* raises with the browser open, or run() reaches the parsing of the decision
TaskCallRun ==
    /\ tpc = "run"
    /\ dpc = "idle"
    /\ loopRuns' = loopRuns + 1
    /\ attemptDirs' = Append(attemptDirs, runDir)
    /\ \/ /\ tpc' = "except"
          /\ browserOpen' = TRUE
          /\ exc' = "RunError"
          /\ UNCHANGED runVars
       \/ /\ tpc' = "in_run"
          /\ browserOpen' = FALSE
          /\ dpc' = "post"
          /\ texts' \in SeqsUpTo(TextContents, MaxAttemptTexts)
          /\ modelResults' \in SeqsUpTo(Entries, MaxAttemptResults)
          /\ modelStatus' \in TopStatuses
          /\ acNames' \in SUBSET Names
          /\ UNCHANGED <<exc, extract, result, runError, mismatch, resultJson>>
    /\ UNCHANGED <<maxRetries, attempts, computerBound, hasResult, releaseCount,
                   runStatus, runDir, pendingError>>
    /\ UNCHANGED reqStatus
    /\ UNCHANGED <<poolVars, loopVars, callVars, webVars>>

\* the runner goes out of scope; the files it wrote stay in the run directory
RunnerDropped ==
    /\ dpc' = "idle"
    /\ texts' = <<>>
    /\ modelResults' = <<>>
    /\ modelStatus' = ""
    /\ acNames' = {}
    /\ extract' = <<>>
    /\ result' = NoResult
    /\ runError' = ""
    /\ mismatch' = NoMismatch
    /\ UNCHANGED resultJson

\* a task that takes whatever leaves run() for a result
TaskRunReturnsSwallow ==
    /\ tpc = "in_run"
    /\ dpc \in {"returned", "raised"}
    /\ tpc' = "persist"
    /\ hasResult' = TRUE
    /\ exc' = ""
    /\ RunnerDropped
    /\ UNCHANGED <<maxRetries, attempts, computerBound, browserOpen, loopRuns,
                   releaseCount, runStatus, runDir, attemptDirs, pendingError>>
    /\ UNCHANGED reqStatus
    /\ UNCHANGED <<poolVars, loopVars, callVars, webVars>>

\* run() is left: by return (result is bound, break) or by the exception,
\* which the except clause of the retry loop catches
TaskRunReturns ==
    /\ tpc = "in_run"
    /\ dpc \in {"returned", "raised"}
    /\ IF dpc = "returned"
          THEN /\ tpc' = "persist"
               /\ hasResult' = TRUE
               /\ exc' = ""
          ELSE /\ tpc' = "except"
               /\ hasResult' = FALSE
               /\ exc' = runError
    /\ RunnerDropped
    /\ UNCHANGED <<maxRetries, attempts, computerBound, browserOpen, loopRuns,
                   releaseCount, runStatus, runDir, attemptDirs, pendingError>>
    /\ UNCHANGED reqStatus
    /\ UNCHANGED <<poolVars, loopVars, callVars, webVars>>

AttemptNext ==
    \/ TaskAcquire
    \/ TaskSetup
    \/ TaskEnter
    \/ TaskCallRun
    \/ RunDecide
    \/ TaskRunReturns
    \/ TaskExcept
    \/ TaskPersist
    \/ TaskOuterExcept
    \/ TaskFinally

SpecAttempt == InitTask /\ [][AttemptNext]_vars

Mismatch == "AcceptanceCriteriaMismatch"

\* C28: a failed name validation leaves run() as an exception: the attempt
\* returns no result and writes no result.json; the retry loop catches the
\* exception and counts the attempt, and once its handler is through it
\* starts the next attempt if attempts remain and otherwise hands the
\* exception on, by which the run is marked as error after max_retries + 1
\* attempts.
NameMismatchSurfaced ==
    /\ [](runError = Mismatch =>
            (dpc = "raised" /\ result = NoResult /\ ~resultJson /\ ~hasResult))
    /\ [][(tpc = "in_run" /\ runError = Mismatch) =>
            (tpc' = "except" /\ exc' = Mismatch /\ ~hasResult' /\ ~resultJson')]_vars
    /\ [][(tpc = "except" /\ exc = Mismatch) =>
            /\ attempts' = attempts + 1
            /\ \/ tpc' = "outer_except" /\ exc' = "CleanupError"
               \/ IF attempts' <= maxRetries
                     THEN tpc' = "enter"
                     ELSE tpc' = "outer_except" /\ exc' = Mismatch]_vars
    /\ [](exc = Mismatch => (~hasResult /\ ~resultJson))
    /\ [](pendingError = Mismatch =>
            (runStatus = "error" /\ attempts = maxRetries + 1 /\ ~hasResult
             /\ ~resultJson))

\* every attempt of a task with retries failed, the last one by the name
\* validation, and the task returned with the run marked as error
NameMismatchSurfacedWitness ==
    /\ tpc = "returned"
    /\ pendingError = Mismatch
    /\ maxRetries >= 1
    /\ loopRuns = maxRetries + 1
    /\ runStatus = "error"

\* C10: when _extract_json has found no decision (no assistant text, no JSON
\* object in the text, or malformed JSON), run() has returned a result whose
\* status is error, whose model_decision is absent and whose error is a
\* non-empty parse-error description.
ExtractionFailureIsNonFatal ==
    (extract # <<>> /\ extract[1].none) =>
        /\ dpc = "returned"
        /\ result.status = "error"
        /\ result.model_decision.none
        /\ result.error # ""

\* the decision json.loads returned, if _extract_json parsed one
DecisionParsed == Len(extract) = 3 /\ ~extract[1].none

\* an entry counts as met / unmet by its boolean met or, without one, by a
\* met / unmet status string
EntryMet(e) ==
    e.met = "True" \/ (e.met = "None" /\ Normalize(e.status) \in MetWords)
EntryUnmet(e) ==
    e.met = "False" \/ (e.met = "None" /\ Normalize(e.status) \in UnmetWords)

DerivedStatusIsAuthoritative ==
    (dpc = "returned" /\ DecisionParsed) =>
        LET d == result.model_decision IN
        /\ d.hasStatus =>
              \A top \in TopStatuses \cup {"unmet", "partially_met"} :
                  DecideStatus([d EXCEPT !.status = top], result.error)
                      = result.status
        /\ d.hasResults =>
              \A has \in BOOLEAN :
                  DecideStatus([d EXCEPT !.hasStatus = has], result.error)
                      = result.status

\* the decision says met at the top level, its results say unmet
DerivedStatusIsAuthoritativeWitness ==
    /\ dpc = "returned"
    /\ result.model_decision.hasStatus
    /\ result.model_decision.status = "met"
    /\ result.status = "unmet"

\* C13: a run over a requirement without acceptance criteria whose parsed
\* decision has an empty or missing acceptance_criteria_results list (the
\* empty object included) has returned a result of status error.
EmptyDecisionIsError ==
    (dpc # "post" /\ DecisionParsed /\ acNames = {}
        /\ extract[1].results = <<>>)
        => (dpc = "returned" /\ result.status = "error")

\* C14: whenever a decision was parsed, run() has raised
\* AcceptanceCriteriaMismatchException exactly if the reported names differ
\* from the names of the requirement's criteria, and the exception reports
\* missing = expected minus reported and extra = reported minus expected.
NameValidation ==
    (dpc # "post" /\ DecisionParsed) =>
        LET reported == ReportedNames(extract[1]) IN
        /\ (runError = "AcceptanceCriteriaMismatch") <=> (reported # acNames)
        /\ (runError = "AcceptanceCriteriaMismatch") =>
              mismatch = [missing |-> acNames \ reported,
                          extra |-> reported \ acNames]


(***************************************************************************)
(* The tasks of one Setup, each verifying a requirement of its own, and    *)
(* the rows they write (webapp/setups/tasks.py): Requirement.status and    *)
(* Setup.state.  Every save and every query is a statement of its own; the *)
(* tasks run in separate workers.                                          *)
(***************************************************************************)
\* req.status = PROCESSING; req.save()
TaskMarksRequirement(r) ==
    /\ fpc[r] = "queued"
    /\ reqStatusOf' = [reqStatusOf EXCEPT ![r] = "processing"]
    /\ fpc' = [fpc EXCEPT ![r] = "marked"]
    /\ UNCHANGED <<setupState, anyProcessing>>
    /\ UNCHANGED <<mpc, wpc, runRows, deadline, polls, info>>
    /\ UNCHANGED <<poolVars, taskVars, loopVars, runVars, callVars>>

\* setup.state = PROCESSING; setup.save(update_fields=["state"])
TaskMarksSetup(r) ==
    /\ fpc[r] = "marked"
    /\ setupState' = "processing"
    /\ fpc' = [fpc EXCEPT ![r] = "running"]
    /\ UNCHANGED <<reqStatusOf, anyProcessing>>
    /\ UNCHANGED <<mpc, wpc, runRows, deadline, polls, info>>
    /\ UNCHANGED <<poolVars, taskVars, loopVars, runVars, callVars>>

\* req.status = verificationrun_status_to_requirement_status(pending.status)
\* req.save(), in the try block and in the except clause
TaskSavesRequirement(r) ==
    /\ fpc[r] = "running"
    /\ \E st \in ResultStatuses :
          reqStatusOf' = [reqStatusOf EXCEPT ![r] = RequirementStatus(st)]
    /\ fpc' = [fpc EXCEPT ![r] = "saved"]
    /\ UNCHANGED <<setupState, anyProcessing>>
    /\ UNCHANGED <<mpc, wpc, runRows, deadline, polls, info>>
    /\ UNCHANGED <<poolVars, taskVars, loopVars, runVars, callVars>>

\* req.setup.requirements.filter(status=PROCESSING).exists()
TaskQueriesProcessing(r) ==
    /\ fpc[r] = "saved"
    /\ anyProcessing' =
          [anyProcessing EXCEPT
              ![r] = \E q \in Runs : reqStatusOf[q] = "processing"]
    /\ fpc' = [fpc EXCEPT ![r] = "queried"]
    /\ UNCHANGED <<reqStatusOf, setupState>>
    /\ UNCHANGED <<mpc, wpc, runRows, deadline, polls, info>>
    /\ UNCHANGED <<poolVars, taskVars, loopVars, runVars, callVars>>

\* setup.state = PROCESSING if the query found a requirement else READY;
\* setup.save(update_fields=["state"])
TaskSavesSetup(r) ==
    /\ fpc[r] = "queried"
    /\ setupState' = IF anyProcessing[r] THEN "processing" ELSE "ready"
    /\ fpc' = [fpc EXCEPT ![r] = "finished"]
    /\ UNCHANGED <<reqStatusOf, anyProcessing>>
    /\ UNCHANGED <<mpc, wpc, runRows, deadline, polls, info>>
    /\ UNCHANGED <<poolVars, taskVars, loopVars, runVars, callVars>>

SetupNext ==
    \/ \E r \in Runs : TaskMarksRequirement(r)
    \/ \E r \in Runs : TaskMarksSetup(r)
    \/ \E r \in Runs : TaskSavesRequirement(r)
    \/ \E r \in Runs : TaskQueriesProcessing(r)
    \/ \E r \in Runs : TaskSavesSetup(r)

InitSetup ==
    SetupIdle /\ McpIdle /\ PoolIdle /\ TaskIdle /\ LoopIdle /\ RunIdle
        /\ CallIdle

SpecSetup == InitSetup /\ [][SetupNext]_vars

\* no task is between a save of its requirement and its save of the setup
NoUpdatePending == \A r \in Runs : fpc[r] \in {"queued", "running", "finished"}

\* C36: once all tasks of the setup have finished the setup is READY, and
\* whenever the setup is PROCESSING and no task is in the middle of its
\* update, one of the setup's requirements is PROCESSING.
SetupFollowsRequirements ==
    /\ (\A r \in Runs : fpc[r] = "finished") => setupState = "ready"
    /\ (setupState = "processing" /\ NoUpdatePending)
            => \E r \in Runs : reqStatusOf[r] = "processing"


(***************************************************************************)
(* verification_run_single_sync of the MCP server: it starts a run of one  *)
(* requirement over HTTP and polls the requirement's latest decision.      *)
(* runRows are the VerificationRun rows of the requirement in the order of *)
(* created_at; a row's field by is 1 when the task started by this call    *)
(* has created it and 0 for a row of an earlier start, its field decision  *)
(* tells whether model_decision_json is truthy.                            *)
(***************************************************************************)
MaxEarlierRuns == 2
MaxPolls == 2

RunRow(b, d) == [by |-> b, decision |-> d]

\* the answer of api_requirement_latest_decision: the row created last, or
\* no row at all (status None, model_decision_json None)
LatestDecision ==
    IF runRows = <<>> THEN RunRow(-1, FALSE) ELSE runRows[Len(runRows)]

McpFrame == UNCHANGED <<fpc, reqStatusOf, setupState, anyProcessing>>
                /\ UNCHANGED <<poolVars, taskVars, loopVars, runVars, callVars>>

\* _start_verification_single_http: api_runs_start enqueues the task with
\* run_verification_task.delay and answers at once
McpStart ==
    /\ mpc = "idle"
    /\ mpc' = "posted"
    /\ wpc' = "queued"
    /\ UNCHANGED <<runRows, deadline, polls, info>>
    /\ McpFrame

\* a worker picks the task up: VerificationRun.objects.create(...) with
\* status PROCESSING and no decision
WorkerCreatesRow ==
    /\ wpc = "queued"
    /\ runRows' = Append(runRows, RunRow(1, FALSE))
    /\ wpc' = "created"
    /\ UNCHANGED <<mpc, deadline, polls, info>>
    /\ McpFrame

\* pending.save() at the end of the task: with the decision of the run, or
\* without one when the run gave none or ended in the except clause
WorkerFinishes ==
    /\ wpc = "created"
    /\ \E d \in BOOLEAN :
          runRows' = [i \in 1..Len(runRows) |->
                         IF runRows[i].by = 1 THEN RunRow(1, d)
                                              ELSE runRows[i]]
    /\ wpc' = "finished"
    /\ UNCHANGED <<mpc, deadline, polls, info>>
    /\ McpFrame

\* a run of an earlier start that was still going saves its decision
EarlierRunFinishes ==
    /\ \E i \in 1..Len(runRows) :
          /\ runRows[i] = RunRow(0, FALSE)
          /\ runRows' = [runRows EXCEPT ![i] = RunRow(0, TRUE)]
    /\ UNCHANGED <<mpc, wpc, deadline, polls, info>>
    /\ McpFrame

\* time.time() reaches deadline = start + _TIMEOUT_SECONDS_SINGLE
DeadlinePasses ==
    /\ mpc = "posted"
    /\ ~deadline
    /\ deadline' = TRUE
    /\ UNCHANGED <<mpc, wpc, runRows, polls, info>>
    /\ McpFrame

\* one round of the while loop: get the latest decision, return it when it
\* is truthy, return what there is when the deadline has passed, else sleep
McpPoll ==
    /\ mpc = "posted"
    /\ IF LatestDecision.decision \/ deadline
          THEN /\ info' = <<LatestDecision>>
               /\ mpc' = "returned"
               /\ UNCHANGED polls
          ELSE /\ polls < MaxPolls
               /\ polls' = polls + 1
               /\ UNCHANGED <<mpc, info>>
    /\ UNCHANGED <<wpc, runRows, deadline>>
    /\ McpFrame

McpNext ==
    \/ McpStart
    \/ WorkerCreatesRow
    \/ WorkerFinishes
    \/ EarlierRunFinishes
    \/ DeadlinePasses
    \/ McpPoll

\* the requirement has up to MaxEarlierRuns rows of earlier starts
InitMcp ==
    /\ mpc = "idle"
    /\ wpc = "none"
    /\ \E n \in 0..MaxEarlierRuns :
          runRows \in [1..n -> {RunRow(0, d) : d \in BOOLEAN}]
    /\ deadline = FALSE
    /\ polls = 0
    /\ info = <<>>
    /\ SetupIdle /\ PoolIdle /\ TaskIdle /\ LoopIdle /\ RunIdle /\ CallIdle

SpecMcp == InitMcp /\ [][McpNext]_vars

\* C38: when the call has returned, a non-null model_decision_json in its
\* answer is the decision of the run this call started, and an answer
\* without a decision is given only after the timeout has been reached.
McpReturnsOwnDecision ==
    mpc = "returned" =>
        IF info[1].decision THEN info[1].by = 1 ELSE deadline

===============================================================================
